---- MODULE Spec2Model ----
(***************************************************************************)
(* Annotation Capture of revival-tripo-spark: the pointer-driven tools     *)
(* (DrawingTool, BreastContourTool, InteractiveTools, NipplePlacementTool) *)
(* and the DrawingInterface panel that receives what they emit.            *)
(*                                                                         *)
(* The tools are React function components.  A handler registered on the   *)
(* canvas is a closure over the values of the render that registered it;   *)
(* a setState call changes the component's state, which the handlers see   *)
(* only after the component has rendered again.  The model keeps both:     *)
(* the state variables (isDrawing, currentPath, ...) hold the state that   *)
(* the next render will read, and `rendered` holds the values the          *)
(* registered handlers close over.  Render is the re-render together with  *)
(* the effects it runs.                                                    *)
(***************************************************************************)
EXTENDS Integers, Sequences, FiniteSets, TLC

\* ------------------------------------------------------------------ bounds
MaxPts == 4      \* surface points captured in one behaviour
MaxCoord == 2    \* hit positions lie on a line, at 0..MaxCoord spacing units
MaxDrags == 1    \* handles grabbed in one behaviour (InteractiveTools)
MaxMoves == 2    \* surface points captured by InteractiveTools in one behaviour
MaxEmit == 2     \* Contours/Landmarks emitted in one behaviour
MaxClicks == 5   \* surface points the click tools capture with synchronous renders
MaxClickEmit == 4 \* Contours/Landmarks the click tools emit with synchronous renders
MaxSyncPts == 7  \* surface points captured in one behaviour with synchronous renders
MaxSyncEmit == 3 \* Contours/Landmarks emitted in one behaviour with synchronous renders
MaxCm == 2       \* largest measured diameter, projection (cm) or mesh volume (cm3)
MaxRegion == 2   \* vertices of the left Region of a deformed mesh
MaxChanges == 2  \* slider movements in one behaviour of the manipulator
MaxDiameter == 10 \* largest breast diameter, in cm
MaxStarts == 3    \* startSimulation calls on one physics engine
MaxFrames == 4    \* animation frames of one physics engine

\* -------------------------------------------------------------- constants
SpacingThreshold == 1     \* one spacing unit: 0.002 in scene units
MinContourPoints == 3
InitialHandles == 4

NULL == "null"

ContourModes == {"leftContour", "rightContour"}
NippleModes == {"leftNipple", "rightNipple"}
DrawingMode == ContourModes \cup NippleModes \cup {"none"}

\* What is mounted in the canvas: the drag-draw tool, the handle-drag tool, or
\* the two click tools side by side (one for contours, one for landmarks).
ClickTools == "BreastContourTool+NipplePlacementTool"
Tools == {"DrawingTool", "InteractiveTools", ClickTools}

\* Where a ray can hit the surface.  Only DrawingTool's contour draw looks at
\* the position of a hit (its spacing check); every other hit is taken at the
\* origin.
Coords == 0..MaxCoord
Origin == 0

\* The spacing check is made on the points of a contour; a landmark is taken
\* at the origin.
HitCoords(m) == IF m \in {"leftContour", "rightContour"} THEN Coords ELSE {Origin}

\* ------------------------------------------------------------ object names
\* Names are sequences of characters so that String.includes is the real,
\* case-sensitive substring test.
Includes(name, sub) ==
  \E i \in 1..(Len(name) - Len(sub) + 1) : SubSeq(name, i, i + Len(sub) - 1) = sub

s_contour == <<"c","o","n","t","o","u","r">>
s_Contour == <<"C","o","n","t","o","u","r">>
s_nipple == <<"n","i","p","p","l","e">>
s_Nipple == <<"N","i","p","p","l","e">>
s_drawing == <<"d","r","a","w","i","n","g">>
s_left == <<"l","e","f","t">>
s_right == <<"r","i","g","h","t">>
s_BreastMarkers == <<"B","r","e","a","s","t","M","a","r","k","e","r","s">>
s_ManualAnnotations == <<"M","a","n","u","a","l","A","n","n","o","t","a","t","i","o","n","s">>
s_DrawingVisualization == <<"D","r","a","w","i","n","g","V","i","s","u","a","l","i","z","a","t","i","o","n">>
s_nipple_marker == <<"n","i","p","p","l","e","-","m","a","r","k","e","r">>

ModeName(m) ==
  CASE m = "leftContour" -> s_left \o s_Contour
    [] m = "rightContour" -> s_right \o s_Contour
    [] m = "leftNipple" -> s_left \o s_Nipple
    [] m = "rightNipple" -> s_right \o s_Nipple
    [] OTHER -> <<"n","o","n","e">>

SideName(id) == IF id = "left" THEN s_left ELSE s_right

\* A scene object: its three.js class, its name, and whether a tool made it.
Obj(type, name, artifact) == [type |-> type, name |-> name, artifact |-> artifact]

\* No object: a null line, or a ray that meets nothing.
NoObject == Obj("null", <<>>, FALSE)

\* The loaded model's mesh.
ModelMesh == Obj("Mesh", <<"m","e","s","h","_","0">>, FALSE)

NippleMarkerObj(m) == Obj("Mesh", s_nipple_marker \o <<"-">> \o ModeName(m), TRUE)
DrawingLineObj(m) == Obj("Line", s_drawing \o <<"-">> \o ModeName(m), TRUE)
ContourHandleObj(i) ==
  Obj("Mesh", s_contour \o <<"-","h","a","n","d","l","e","-">> \o <<ToString(i)>>, TRUE)
ContourLineObj == Obj("Line", s_contour \o <<"-","l","i","n","e">>, TRUE)
NippleVisualizationObj(id) == Obj("Mesh", SideName(id) \o s_Nipple, TRUE)
DrawingVisualizationObj == Obj("Group", s_DrawingVisualization, TRUE)

\* ------------------------------------------------------------------- state
VARIABLES
  flush,           \* every update is rendered before the next input is dispatched
  tool,            \* which annotation tool is mounted in the canvas
  currentMode,     \* DrawingInterface: the selected mode, the tools' mode prop
  annotations,     \* DrawingInterface: the four stored annotations
  rendered,        \* the values the tool's registered handlers close over
  isDrawing,       \* DrawingTool / BreastContourTool: useState isDrawing
  currentPath,     \* DrawingTool: useState currentPath {points, line}
  vertices,        \* BreastContourTool: useState vertices
  contourPoints,   \* InteractiveTools: useState contourPoints
  dragState,       \* InteractiveTools: useState dragState
  controlsEnabled, \* controls.enabled of the orbit controls
  scene,           \* objects the tool has added to the scene graph
  btn,             \* the pointer button is held down over the canvas
  nextId,          \* number of surface points captured so far
  emitted,         \* every Contour and Landmark handed to the callbacks, in order
  accepted,        \* points that passed the spacing check since the path was last emptied
  drags,           \* number of handles grabbed so far
  logged,          \* the last step wrote finishContour's console.warn
  calc             \* the measurement, analysis or deformation call in progress

vars == <<calc, flush, logged, tool, currentMode, annotations, rendered, isDrawing, currentPath,
          vertices, contourPoints, dragState, controlsEnabled,
          scene, btn, nextId, emitted, accepted, drags>>

\* Everything but the call in progress: the annotation panel and its tool.
panel ==
  <<flush, logged, tool, currentMode, annotations, rendered, isDrawing, currentPath,
    vertices, contourPoints, dragState, controlsEnabled, scene, btn, nextId, emitted,
    accepted, drags>>

toolState == <<isDrawing, currentPath, vertices, contourPoints, dragState>>

Side(m) == IF m \in {"leftContour", "leftNipple"} THEN "left" ELSE "right"

\* No call of the measurement, analysis or deformation code is in progress.
NoCalc == [op |-> "none"]

EmptyPath == [points |-> <<>>, line |-> NoObject]
NoDrag == [isDragging |-> FALSE, pointIndex |-> 0]
NoAnnotation == [kind |-> NULL, id |-> NULL, vertices |-> <<>>]
EmptyAnnotations ==
  [leftContour |-> NoAnnotation, rightContour |-> NoAnnotation,
   leftNipple |-> NoAnnotation, rightNipple |-> NoAnnotation]

\* BreastContourTool's handleClick is rebuilt only when isActive or vertices
\* change, and calls the finishContour of the render that built it: the
\* breastSide that finishContour closes over is the one of that render.
finishSide ==
  IF (rendered.mode \in ContourModes) # (currentMode \in ContourModes)
     \/ rendered.vertices # vertices
  THEN Side(currentMode)
  ELSE rendered.finishSide

\* What a render of the tool reads: its props and its state.
View ==
  [mode |-> currentMode, isDrawing |-> isDrawing, currentPath |-> currentPath,
   vertices |-> vertices, contourPoints |-> contourPoints, dragState |-> dragState,
   finishSide |-> finishSide]


Distance(a, b) == IF a.pos >= b.pos THEN a.pos - b.pos ELSE b.pos - a.pos

\* The environment stops sending input once the bounds are used up.  The
\* runs with synchronous renders are the longer ones: they go through the
\* panel's whole sequence of annotations.
MoreInput ==
  Len(emitted) < (IF ~flush THEN MaxEmit
                  ELSE IF tool = ClickTools THEN MaxClickEmit ELSE MaxSyncEmit)
MoreHits ==
  nextId < (IF tool = "InteractiveTools" THEN MaxMoves
            ELSE IF ~flush THEN MaxPts
            ELSE IF tool = ClickTools THEN MaxClicks ELSE MaxSyncPts)

\* An input event is dispatched to the handlers registered by the last
\* render; with synchronous renders that render has seen every update.
Quiescent == rendered = View
Dispatch == MoreInput /\ (flush => Quiescent)

\* A surface hit: the next point, tagged with the side the tool is working on.
Point(pos, side) == [id |-> nextId + 1, pos |-> pos, side |-> side]

\* -------------------------------------------------------- DrawingInterface
\* The nipple markers of the DrawingVisualization group follow the stored
\* annotations.  The panel adds the group to the scene it is given, taken
\* here to be the scene graph the tools cast their rays against.
DrawingVisualization ==
  {DrawingVisualizationObj}
    \cup {NippleVisualizationObj(id) : id \in
            {i \in {"left", "right"} :
               annotations[IF i = "left" THEN "leftNipple" ELSE "rightNipple"] # NoAnnotation}}

SceneObjects == {ModelMesh} \cup scene \cup DrawingVisualization

Contour(id, points) == [kind |-> "contour", id |-> id, vertices |-> points]
NippleMarker(id, point) == [kind |-> "landmark", id |-> id, vertices |-> <<point>>]

\* handleContourComplete: store the contour and advance to the next mode.
handleContourComplete(contour) ==
  /\ annotations' =
       [annotations EXCEPT ![IF contour.id = "left" THEN "leftContour" ELSE "rightContour"] = contour]
  /\ currentMode' = IF contour.id = "left" THEN "rightContour" ELSE "leftNipple"
  /\ emitted' = Append(emitted, contour)

\* handleNipplePlaced without the advance to the next mode.
handleNipplePlaced_NoAdvance(nipple) ==
  /\ annotations' =
       [annotations EXCEPT ![IF nipple.id = "left" THEN "leftNipple" ELSE "rightNipple"] = nipple]
  /\ currentMode' = currentMode
  /\ emitted' = Append(emitted, nipple)

\* handleNipplePlaced: store the landmark and advance to the next mode.
handleNipplePlaced(nipple) ==
  /\ annotations' =
       [annotations EXCEPT ![IF nipple.id = "left" THEN "leftNipple" ELSE "rightNipple"] = nipple]
  /\ currentMode' = IF nipple.id = "left" THEN "rightNipple" ELSE "none"
  /\ emitted' = Append(emitted, nipple)

\* The mode buttons; a button is disabled until the previous annotation exists.
ButtonEnabled(m) ==
  CASE m = "leftContour" -> TRUE
    [] m = "rightContour" -> annotations.leftContour # NoAnnotation
    [] m = "leftNipple" -> annotations.rightContour # NoAnnotation
    [] m = "rightNipple" -> annotations.leftNipple # NoAnnotation
    [] OTHER -> FALSE

handleModeSelect(m) ==
  /\ Dispatch
  /\ ButtonEnabled(m)
  /\ currentMode' = m
  /\ logged' = FALSE
  /\ UNCHANGED <<calc, flush, tool, annotations, rendered, toolState, controlsEnabled, scene,
                 btn, nextId, emitted, accepted, drags>>

\* Reset All.  The panel's scene prop is the loaded model's group: the
\* traversal reaches the DrawingVisualization group, not what the tools
\* added to the canvas scene.
resetAnnotations ==
  /\ Dispatch
  /\ annotations' = EmptyAnnotations
  /\ currentMode' = "none"
  /\ logged' = FALSE
  /\ UNCHANGED <<calc, flush, tool, rendered, toolState, controlsEnabled, scene, btn, nextId,
                 emitted, accepted, drags>>

\* ------------------------------------------------------------- Surface Query
\* The candidate filter of each tool's ray cast.
DrawingToolCandidate(o) ==
  /\ o.type = "Mesh"
  /\ ~Includes(o.name, s_contour)
  /\ ~Includes(o.name, s_nipple)
  /\ ~Includes(o.name, s_drawing)
  /\ o.name # s_BreastMarkers
  /\ o.name # s_ManualAnnotations

BreastContourToolCandidate(o) ==
  /\ o.type = "Mesh"
  /\ o.name # s_BreastMarkers

NipplePlacementToolCandidate(o) ==
  /\ o.type = "Mesh"
  /\ o.name # s_BreastMarkers
  /\ ~Includes(o.name, s_Contour)
  /\ ~Includes(o.name, s_Nipple)

InteractiveToolsCandidate(o) ==
  /\ o.type = "Mesh"
  /\ ~Includes(o.name, s_contour)
  /\ ~Includes(o.name, s_Nipple)
  /\ o.name # s_BreastMarkers
  /\ o.name # s_ManualAnnotations

\* The candidate meshes of the ray cast the mounted tool makes in mode m.
Candidates(t, m) ==
  CASE t = "DrawingTool" -> {o \in SceneObjects : DrawingToolCandidate(o)}
    [] t = "InteractiveTools" -> {o \in SceneObjects : InteractiveToolsCandidate(o)}
    [] t = ClickTools /\ m \in ContourModes ->
         {o \in SceneObjects : BreastContourToolCandidate(o)}
    [] t = ClickTools /\ m \in NippleModes ->
         {o \in SceneObjects : NipplePlacementToolCandidate(o)}
    [] OTHER -> {}

\* What the ray of a pointer event meets first: a candidate, or nothing.
Targets(t, m) == Candidates(t, m) \cup {NoObject}

\* -------------------------------------------------------------- DrawingTool
\* clearCurrentDrawing as closed over by a render whose path is `path`.
clearCurrentDrawing(path, sc) == sc \ {path.line}

DT_handleMouseDown ==
  /\ tool = "DrawingTool"
  /\ Dispatch
  /\ ~btn
  /\ btn' = TRUE
  /\ \E target \in Targets(tool, rendered.mode), pos \in HitCoords(rendered.mode) :
       LET mode == rendered.mode
           hit == target # NoObject
           point == Point(pos, Side(mode))
       IN
       /\ hit => MoreHits
       /\ IF mode = "none"
          THEN UNCHANGED <<currentMode, annotations, toolState, controlsEnabled, scene,
                           nextId, emitted, accepted>>
          ELSE IF ~hit
          THEN /\ controlsEnabled' = FALSE
               /\ UNCHANGED <<currentMode, annotations, toolState, scene, nextId,
                              emitted, accepted>>
          ELSE IF mode \in NippleModes
          THEN /\ handleNipplePlaced(NippleMarker(Side(mode), point))
               /\ scene' = scene \cup {NippleMarkerObj(mode)}
               /\ controlsEnabled' = TRUE
               /\ nextId' = nextId + 1
               /\ UNCHANGED <<toolState, accepted>>
          ELSE /\ controlsEnabled' = FALSE
               /\ isDrawing' = TRUE
               /\ scene' = clearCurrentDrawing(rendered.currentPath, scene)
               /\ currentPath' = [points |-> <<point>>, line |-> NoObject]
               /\ nextId' = nextId + 1
               /\ accepted' = <<point>>
               /\ UNCHANGED <<currentMode, annotations, vertices, contourPoints,
                              dragState, emitted>>
  /\ logged' = FALSE
  /\ UNCHANGED <<calc, flush, tool, rendered, drags>>

DT_handleMouseMove ==
  /\ tool = "DrawingTool"
  /\ Dispatch
  /\ \E target \in Targets(tool, rendered.mode), pos \in Coords :
       LET mode == rendered.mode
           hit == target # NoObject
           point == Point(pos, Side(mode))
           points == rendered.currentPath.points
           newPoints == Append(points, point)
           line == DrawingLineObj(mode)
       IN
       /\ hit => MoreHits
       /\ IF ~rendered.isDrawing \/ mode \notin ContourModes \/ ~hit
          THEN UNCHANGED <<currentPath, scene, nextId, accepted>>
          ELSE IF points = <<>> \/ Distance(point, points[Len(points)]) > SpacingThreshold
                  THEN /\ nextId' = nextId + 1
                       /\ accepted' = Append(accepted, point)
                       /\ IF Len(newPoints) > 1
                          THEN /\ scene' = clearCurrentDrawing(rendered.currentPath, scene)
                                             \cup {line}
                               /\ currentPath' = [points |-> newPoints, line |-> line]
                          ELSE /\ scene' = clearCurrentDrawing(rendered.currentPath, scene)
                               /\ currentPath' = [points |-> newPoints, line |-> NoObject]
                  ELSE UNCHANGED <<currentPath, scene, nextId, accepted>>
  /\ logged' = FALSE
  /\ UNCHANGED <<calc, flush, tool, currentMode, annotations, rendered, isDrawing, vertices,
                 contourPoints, dragState, controlsEnabled, btn, emitted, drags>>

\* The completion test without its length check.
DT_canComplete_NoMinimum(points, mode) == mode \in ContourModes

\* The pointer-up that ends a draw hands the path over when it is long enough.
DT_canComplete(points, mode) ==
  Len(points) >= MinContourPoints /\ mode \in ContourModes

DT_handleMouseUp ==
  /\ tool = "DrawingTool"
  /\ Dispatch
  /\ btn
  /\ btn' = FALSE
  /\ LET mode == rendered.mode
         points == rendered.currentPath.points
     IN
     IF ~rendered.isDrawing
     THEN UNCHANGED <<currentMode, annotations, isDrawing, controlsEnabled, emitted>>
     ELSE /\ isDrawing' = FALSE
          /\ controlsEnabled' = TRUE
          /\ IF DT_canComplete(points, mode)
             THEN handleContourComplete(Contour(Side(mode), points))
             ELSE UNCHANGED <<currentMode, annotations, emitted>>
  /\ logged' = FALSE
  /\ UNCHANGED <<calc, flush, tool, rendered, currentPath, vertices, contourPoints, dragState,
                 scene, nextId, accepted, drags>>

\* ------------------------------------------- BreastContourTool, NipplePlacementTool
\* finishContour as closed over by a render with these vertices and breastSide.
\* With fewer than three vertices it writes a warning and returns.
BCT_finishContour(points, breastSide) ==
  IF Len(points) < MinContourPoints
  THEN UNCHANGED <<currentMode, annotations, emitted, isDrawing>>
  ELSE /\ handleContourComplete(Contour(breastSide, points))
       /\ isDrawing' = FALSE

\* A click on the canvas: BreastContourTool listens while a contour mode is
\* active, NipplePlacementTool while a landmark mode is.
handleClick(ctrlKey) ==
  /\ tool = ClickTools
  /\ Dispatch
  /\ \E target \in Targets(tool, rendered.mode) :
       LET mode == rendered.mode
           hit == target # NoObject
           point == Point(Origin, Side(mode))
       IN
       /\ hit => MoreHits
       /\ IF mode = "none" \/ ~hit
          THEN UNCHANGED <<currentMode, annotations, isDrawing, vertices, nextId, emitted>>
          ELSE IF mode \in NippleModes
          THEN /\ handleNipplePlaced(NippleMarker(Side(mode), point))
               /\ nextId' = nextId + 1
               /\ UNCHANGED <<isDrawing, vertices>>
          ELSE IF ctrlKey /\ Len(rendered.vertices) > 0
          THEN /\ BCT_finishContour(rendered.vertices, rendered.finishSide)
               /\ UNCHANGED <<vertices, nextId>>
          ELSE /\ vertices' = Append(vertices, point)
               /\ isDrawing' = TRUE
               /\ nextId' = nextId + 1
               /\ UNCHANGED <<currentMode, annotations, emitted>>
       /\ logged' = (mode \in ContourModes /\ hit /\ ctrlKey
                       /\ Len(rendered.vertices) \in 1..(MinContourPoints - 1))
  /\ UNCHANGED <<calc, flush, tool, rendered, currentPath, contourPoints, dragState, controlsEnabled,
                 scene, btn, accepted, drags>>

BCT_clearContour ==
  /\ vertices' = <<>>
  /\ isDrawing' = FALSE

\* BreastContourTool's key listener, registered while the tool is active.
BCT_handleKeyPress(key) ==
  IF rendered.mode \notin ContourModes
  THEN UNCHANGED <<currentMode, annotations, emitted, isDrawing, vertices, scene,
                   contourPoints>>
  ELSE IF key = "Enter" /\ Len(rendered.vertices) >= MinContourPoints
  THEN /\ BCT_finishContour(rendered.vertices, Side(rendered.mode))
       /\ UNCHANGED <<vertices, scene, contourPoints>>
  ELSE IF key = "Escape"
  THEN /\ BCT_clearContour
       /\ UNCHANGED <<currentMode, annotations, emitted, scene, contourPoints>>
  ELSE UNCHANGED <<currentMode, annotations, emitted, isDrawing, vertices, scene,
                   contourPoints>>

\* --------------------------------------------------------- InteractiveTools
ContourPoint(point, i) == [position |-> point, mesh |-> i]

\* createInitialContour: four handles on an ellipse sized from the model's
\* bounding box; their positions are computed, not picked on the surface.
createInitialContour(mode) ==
  [i \in 1..InitialHandles |->
     ContourPoint([id |-> 0, pos |-> i - 1, side |-> Side(mode)], i - 1)]

Handles(points) == {ContourHandleObj(points[i].mesh) : i \in 1..Len(points)}

\* updateContourVisualization: replace the line named contour-line.
updateContourVisualization(points, sc) ==
  (sc \ {ContourLineObj})
    \cup (IF Len(points) < MinContourPoints THEN {} ELSE {ContourLineObj})

\* clearContour as closed over by a render with these contourPoints.
IT_clearContour(points, sc) == (sc \ Handles(points)) \ {ContourLineObj}

\* The handles a pointer-down can meet.  The handlers treat every handle
\* alike, so the pointer is taken to be over the first one.
Grabbable(points) == {i \in 1..Len(points) : i = 1}

IT_handleMouseDown ==
  /\ tool = "InteractiveTools"
  /\ Dispatch
  /\ ~btn
  /\ btn' = TRUE
  /\ LET mode == rendered.mode IN
     IF mode \in NippleModes
     THEN \* handleNipplePlacement
          \E target \in Targets(tool, mode) :
            LET hit == target # NoObject
                point == Point(Origin, Side(mode))
            IN
            /\ hit => MoreHits
            /\ IF hit
               THEN /\ handleNipplePlaced(NippleMarker(Side(mode), point))
                    /\ nextId' = nextId + 1
               ELSE UNCHANGED <<currentMode, annotations, emitted, nextId>>
            /\ UNCHANGED <<dragState, controlsEnabled, drags>>
     ELSE IF mode = "none"
     THEN UNCHANGED <<currentMode, annotations, emitted, nextId, dragState,
                      controlsEnabled, drags>>
     ELSE \* the ray is cast against the handles only
          \E pointIndex \in {0} \cup Grabbable(rendered.contourPoints) :
            /\ IF pointIndex # 0
               THEN /\ drags < MaxDrags
                    /\ drags' = drags + 1
                    /\ controlsEnabled' = FALSE
                    /\ dragState' = [isDragging |-> TRUE, pointIndex |-> pointIndex]
               ELSE UNCHANGED <<dragState, controlsEnabled, drags>>
            /\ UNCHANGED <<currentMode, annotations, emitted, nextId>>
  /\ logged' = FALSE
  /\ UNCHANGED <<calc, flush, tool, rendered, isDrawing, currentPath, vertices, contourPoints, scene,
                 accepted>>

\* The dragged handle's position object is changed in place: the handlers
\* that hold the same array see the new position at once.
IT_handleMouseMove ==
  /\ tool = "InteractiveTools"
  /\ Dispatch
  /\ LET drag == rendered.dragState
         points == rendered.contourPoints
     IN
     IF ~drag.isDragging \/ drag.pointIndex = 0
     THEN UNCHANGED <<rendered, contourPoints, scene, nextId>>
     ELSE \E target \in Targets(tool, rendered.mode) :
            LET hit == target # NoObject
                newPosition == Point(Origin, Side(rendered.mode))
                updatedPoints == [points EXCEPT ![drag.pointIndex].position = newPosition]
            IN
            /\ hit => MoreHits
            /\ IF ~hit
               THEN UNCHANGED <<rendered, contourPoints, scene, nextId>>
               ELSE IF drag.pointIndex > Len(points)
               THEN \* updatedPoints[pointIndex] is undefined: TypeError
                    UNCHANGED <<rendered, contourPoints, scene, nextId>>
               ELSE /\ nextId' = nextId + 1
                    /\ rendered' = [rendered EXCEPT !.contourPoints = updatedPoints]
                    /\ contourPoints' = updatedPoints
                    /\ scene' = updateContourVisualization(updatedPoints, scene)
  /\ logged' = FALSE
  /\ UNCHANGED <<calc, flush, tool, currentMode, annotations, isDrawing, currentPath, vertices,
                 dragState, controlsEnabled, btn, emitted, accepted, drags>>

IT_handleMouseUp ==
  /\ tool = "InteractiveTools"
  /\ Dispatch
  /\ btn
  /\ btn' = FALSE
  /\ LET drag == rendered.dragState IN
     IF drag.isDragging /\ drag.pointIndex # 0
     THEN IF drag.pointIndex > Len(rendered.contourPoints)
          THEN \* contourPoints[pointIndex] is undefined: TypeError
               UNCHANGED <<dragState, controlsEnabled>>
          ELSE /\ controlsEnabled' = TRUE
               /\ dragState' = NoDrag
     ELSE /\ dragState' = NoDrag
          /\ UNCHANGED controlsEnabled
  /\ logged' = FALSE
  /\ UNCHANGED <<calc, flush, tool, currentMode, annotations, rendered, isDrawing, currentPath,
                 vertices, contourPoints, scene, nextId, emitted, accepted, drags>>

\* finishContour as closed over by the current handlers.
IT_finishContour ==
  LET points == rendered.contourPoints IN
  IF Len(points) < MinContourPoints
  THEN UNCHANGED <<currentMode, annotations, emitted, contourPoints, scene>>
  ELSE /\ handleContourComplete(
            Contour(IF rendered.mode = "leftContour" THEN "left" ELSE "right",
                    [i \in 1..Len(points) |-> points[i].position]))
       /\ scene' = IT_clearContour(points, scene)
       /\ contourPoints' = <<>>

\* InteractiveTools' key listener: Enter in a contour mode, nothing else.
IT_handleKeyPress(key) ==
  IF rendered.mode \in ContourModes /\ key = "Enter"
  THEN /\ IT_finishContour
       /\ UNCHANGED <<isDrawing, vertices>>
  ELSE UNCHANGED <<currentMode, annotations, emitted, isDrawing, vertices, scene,
                   contourPoints>>

\* ------------------------------------------------------------------ keyboard
Keys == {"Enter", "Escape"}

\* A key press on the window.  DrawingTool registers no key listener.
KeyDown(key) ==
  /\ Dispatch
  /\ CASE tool = ClickTools -> BCT_handleKeyPress(key)
       [] tool = "InteractiveTools" -> IT_handleKeyPress(key)
       [] OTHER -> UNCHANGED <<currentMode, annotations, emitted, isDrawing, vertices,
                               scene, contourPoints>>
  /\ logged' = FALSE
  /\ UNCHANGED <<calc, flush, tool, rendered, currentPath, dragState, controlsEnabled, btn, nextId,
                 accepted, drags>>

\* -------------------------------------------------------------------- render
\* The tool renders again with the current props and state; the handlers are
\* registered anew and the effects whose dependencies changed run.
\*   DrawingTool, effect on [mode]: clearCurrentDrawing.
\*   InteractiveTools, effect on [mode]: createInitialContour in a contour
\*   mode, clearContour otherwise.
Render ==
  /\ rendered # View
  /\ rendered' = View
  /\ IF rendered.mode = currentMode
     THEN UNCHANGED <<currentPath, contourPoints, scene, accepted>>
     ELSE CASE tool = "DrawingTool" ->
                 /\ scene' = clearCurrentDrawing(currentPath, scene)
                 /\ currentPath' = EmptyPath
                 /\ accepted' = <<>>
                 /\ UNCHANGED contourPoints
            [] tool = "InteractiveTools" /\ currentMode \in ContourModes ->
                 /\ contourPoints' = createInitialContour(currentMode)
                 /\ scene' = updateContourVisualization(
                               createInitialContour(currentMode),
                               scene \cup Handles(createInitialContour(currentMode)))
                 /\ UNCHANGED <<currentPath, accepted>>
            [] tool = "InteractiveTools" /\ currentMode \notin ContourModes ->
                 /\ scene' = IT_clearContour(contourPoints, scene)
                 /\ contourPoints' = <<>>
                 /\ UNCHANGED <<currentPath, accepted>>
            [] OTHER -> UNCHANGED <<currentPath, contourPoints, scene, accepted>>
  /\ logged' = FALSE
  /\ UNCHANGED <<calc, flush, tool, currentMode, annotations, isDrawing, vertices, dragState,
                 controlsEnabled, btn, nextId, emitted, drags>>

\* --------------------------------------------------------------------- spec
Mounted ==
  /\ tool \in Tools
  /\ currentMode = "none"
  /\ annotations = EmptyAnnotations
  /\ isDrawing = FALSE
  /\ currentPath = EmptyPath
  /\ vertices = <<>>
  /\ contourPoints = <<>>
  /\ dragState = NoDrag
  /\ rendered =
       [mode |-> "none", isDrawing |-> FALSE, currentPath |-> EmptyPath, vertices |-> <<>>,
        contourPoints |-> <<>>, dragState |-> NoDrag, finishSide |-> "right"]
  /\ controlsEnabled = TRUE
  /\ scene = {}
  /\ btn = FALSE
  /\ nextId = 0
  /\ emitted = <<>>
  /\ accepted = <<>>
  /\ drags = 0
  /\ logged = FALSE

Start == Mounted /\ calc = NoCalc

Init == Start /\ flush = FALSE

InitSync == Start /\ flush = TRUE

Next ==
  \/ \E m \in DrawingMode : handleModeSelect(m)
  \/ resetAnnotations
  \/ DT_handleMouseDown
  \/ DT_handleMouseMove
  \/ DT_handleMouseUp
  \/ \E ctrlKey \in BOOLEAN : handleClick(ctrlKey)
  \/ IT_handleMouseDown
  \/ IT_handleMouseMove
  \/ IT_handleMouseUp
  \/ \E key \in Keys : KeyDown(key)
  \/ Render

\* Input may arrive before the previous update has been rendered.
Spec == Init /\ [][Next]_vars

\* Every update is rendered before the next input arrives.
SpecSync == InitSync /\ [][Next]_vars

\* ------------------------------------------------------------ observations
\* The point sequence the mounted tool is building.
Building ==
  CASE tool = "DrawingTool" -> currentPath.points
    [] tool = ClickTools -> vertices
    [] OTHER -> [i \in 1..Len(contourPoints) |-> contourPoints[i].position]

\* The same sequence as the registered handlers see it.
BuildingSeen ==
  CASE tool = "DrawingTool" -> rendered.currentPath.points
    [] tool = ClickTools -> rendered.vertices
    [] OTHER -> [i \in 1..Len(rendered.contourPoints) |-> rendered.contourPoints[i].position]

EmittedContours == {i \in 1..Len(emitted) : emitted[i].kind = "contour"}

\* The surface points of an emitted annotation (the handles that
\* createInitialContour computes carry id 0: they were not captured).
CapturedIds(a) == {a.vertices[k].id : k \in 1..Len(a.vertices)} \ {0}

\* This step hands one more annotation to DrawingInterface.
Emits == Len(emitted') = Len(emitted) + 1

\* A completion signal that reaches a tool holding fewer than three points:
\* the pointer-up that ends a draw, Enter, or a modifier-click.
ShortCompletion ==
  /\ rendered.mode \in ContourModes
  /\ Len(BuildingSeen) < 3
  /\ \/ DT_handleMouseUp /\ rendered.isDrawing
     \/ KeyDown("Enter") /\ tool # "DrawingTool"
     \/ handleClick(TRUE) /\ Len(BuildingSeen) > 0

\* A pointer-down or click that reaches a tool in a landmark mode.
LandmarkPointerDown ==
  /\ rendered.mode \in NippleModes
  /\ \/ DT_handleMouseDown
     \/ IT_handleMouseDown
     \/ \E ctrlKey \in BOOLEAN : handleClick(ctrlKey)

\* ------------------------------------------------------------------- claims

\* C1: every Contour handed to onContourComplete, by any of the three contour
\* tools and after any sequence of mode selections, pointer events and finish
\* signals, has at least three points.
C1_EmittedContourHasThreePoints ==
  \A i \in EmittedContours : Len(emitted[i].vertices) >= 3

\* DrawingTool has emitted a Contour of exactly three points.
C1_Witness ==
  /\ tool = "DrawingTool"
  /\ \E i \in EmittedContours : Len(emitted[i].vertices) = 3

\* C2: controls suspended by a pointer-down in a drawing mode are enabled
\* again once the matching pointer-up has been handled, hit or miss, emitted
\* or not: with the button up the controls are never left suspended.
C2_ControlsResumedAtPointerUp == ~btn => controlsEnabled

\* C3: when the tool leaves a drawing mode while the button is down and the
\* controls are suspended, the render that applies the mode change leaves the
\* controls enabled and no drag or draw flag set.
C3_ModeSwitchReleasesControls ==
  [][(/\ rendered.mode # "none"
      /\ rendered'.mode # rendered.mode
      /\ btn
      /\ ~controlsEnabled)
     => (controlsEnabled' /\ ~isDrawing' /\ ~dragState'.isDragging)]_vars

\* C4: when the tool goes from the left contour mode to the right landmark
\* mode holding fewer than three points, the points in progress are
\* discarded: once the mode change has been applied the sequence is empty.
C4_ShortLeftContourDiscarded ==
  [][(/\ rendered.mode = "leftContour"
      /\ rendered'.mode = "rightNipple"
      /\ Len(Building) < 3)
     => Building' = <<>>]_vars

\* C5: no captured point of an emitted Contour appears in a Contour emitted
\* later, and every captured point of a Contour was captured for the side the
\* Contour is tagged with.
C5_ContoursShareNoPoints ==
  /\ \A i, j \in EmittedContours :
       i < j => CapturedIds(emitted[i]) \cap CapturedIds(emitted[j]) = {}
  /\ \A i \in EmittedContours : \A k \in 1..Len(emitted[i].vertices) :
       emitted[i].vertices[k].id # 0 => emitted[i].vertices[k].side = emitted[i].id

\* C6: the Contour DrawingTool emits holds every point that passed the
\* spacing check during the draw, once each and in arrival order, also when
\* events arrive before the previous update has been rendered.
C6_EmittedOrderIsArrivalOrder ==
  [][(tool = "DrawingTool" /\ Emits /\ emitted'[Len(emitted')].kind = "contour")
     => emitted'[Len(emitted')].vertices = accepted]_vars

C8_LandmarkThenIdle ==
  [][LandmarkPointerDown
     => IF nextId' # nextId
        THEN /\ Emits
             /\ emitted'[Len(emitted')].kind = "landmark"
             /\ emitted'[Len(emitted')].id = Side(rendered.mode)
             /\ currentMode' = "none"
        ELSE emitted' = emitted /\ currentMode' = currentMode]_vars

\* C8: in a landmark mode a pointer-down that hits emits exactly one Landmark
\* of that side; the panel then advances, to the right landmark mode after
\* the left Landmark and to 'none' after the right one.  A pointer-down that
\* misses emits nothing and leaves the mode unchanged.
C8_LandmarkThenAdvance ==
  [][LandmarkPointerDown
     => IF nextId' # nextId
        THEN /\ Emits
             /\ emitted'[Len(emitted')].kind = "landmark"
             /\ emitted'[Len(emitted')].id = Side(rendered.mode)
             /\ CapturedIds(emitted'[Len(emitted')]) = {nextId'}
             /\ currentMode' = IF rendered.mode = "leftNipple" THEN "rightNipple" ELSE "none"
        ELSE emitted' = emitted /\ currentMode' = currentMode]_vars

\* DrawingTool has just placed the left Landmark and the panel has advanced.
C8_Witness ==
  /\ tool = "DrawingTool"
  /\ Len(emitted) > 0
  /\ emitted[Len(emitted)].kind = "landmark"
  /\ emitted[Len(emitted)].id = "left"
  /\ rendered.mode = "leftNipple"
  /\ currentMode = "rightNipple"

\* C9: Escape in a drawing mode discards the points in progress and puts the
\* capture in idle (mode 'none'), and emits nothing.
C9_EscapeReturnsToIdle ==
  [][(KeyDown("Escape") /\ rendered.mode # "none")
     => (currentMode' = "none" /\ Building' = <<>> /\ ~isDrawing'
         /\ emitted' = emitted)]_vars

\* C10: no object added by a tool or by the panel's visualization is a
\* candidate mesh of the ray cast the mounted tool makes in a drawing mode.
C10_ArtifactsExcluded ==
  rendered.mode # "none" => \A o \in Candidates(tool, rendered.mode) : ~o.artifact

\* Consecutive captured points of a sequence are farther apart than the
\* spacing threshold.
Spaced(points) ==
  \A k \in 1..(Len(points) - 1) :
    (points[k].id # 0 /\ points[k + 1].id # 0)
      => Distance(points[k], points[k + 1]) > SpacingThreshold

\* C11: a surface hit is appended to the points in progress only if it is
\* farther than the spacing threshold from the last appended point: no two
\* consecutive points of a sequence in progress or of an emitted Contour are
\* closer together than that.
C11_ConsecutivePointsSpaced ==
  /\ Spaced(Building)
  /\ \A i \in EmittedContours : Spaced(emitted[i].vertices)

-----------------------------------------------------------------------------
\* Numbers.  The measurement code computes in IEEE doubles; a value is either
\* finite (carried as an integer in the unit its definition names), NaN or
\* Infinity.

Finite(v) == [kind |-> "finite", value |-> v]
NaN == [kind |-> "NaN", value |-> 0]
Infinity == [kind |-> "Infinity", value |-> 0]

Abs(x) == IF x < 0 THEN -x ELSE x
Max(x, y) == IF x >= y THEN x ELSE y

\* Math.round of the non-negative quotient n / d (d > 0): halves round up.
Round(n, d) == (2 * n + d) \div (2 * d)

\* n / d of two non-negative numbers as JavaScript divides them, the finite
\* quotient taken times scale and rounded: 0 / 0 is NaN, n / 0 is Infinity.
Divide(n, d, scale) ==
  IF d = 0 THEN (IF n = 0 THEN NaN ELSE Infinity) ELSE Finite(Round(n * scale, d))

-----------------------------------------------------------------------------
\* BreastMeshExtractor.calculateBreastVolumes

\* Measured lengths in cm, and mesh volumes in cm3 (volume * 1000000).
Cm == 0..MaxCm
MeshVolumes == 0..MaxCm

\* Math.PI as a fraction.
PiNum == 355
PiDen == 113

\* The asymmetry of two volumes in tenths of a percent:
\* Math.round(Math.abs(l - r) / Math.max(l, r) * 100 * 10) / 10.
\* Math.round(NaN) is NaN.
asymmetryRatio(leftVolume, rightVolume) ==
  Divide(Abs(leftVolume - rightVolume), Max(leftVolume, rightVolume), 1000)

VolumeArgs ==
  [leftDiameter : Cm, rightDiameter : Cm, leftProjection : Cm, rightProjection : Cm,
   extractedMeshes : BOOLEAN, leftMeshVolume : MeshVolumes, rightMeshVolume : MeshVolumes]

NoVolumes ==
  [leftVolume |-> 0, rightVolume |-> 0, totalVolume |-> 0, asymmetryRatio |-> Finite(0)]

\* Without meshes a volume is (4/3) * PI * (d/2) * (d/2) * p, that is
\* PI * d * d * p / 3; with meshes it is the mesh volume in cm3.  left and
\* right are fractions over the common denominator den.
calculateBreastVolumes(a) ==
  LET den   == IF a.extractedMeshes THEN 1 ELSE 3 * PiDen
      left  == IF a.extractedMeshes THEN a.leftMeshVolume
               ELSE PiNum * a.leftDiameter * a.leftDiameter * a.leftProjection
      right == IF a.extractedMeshes THEN a.rightMeshVolume
               ELSE PiNum * a.rightDiameter * a.rightDiameter * a.rightProjection
  IN  [leftVolume     |-> Round(left, den),
       rightVolume    |-> Round(right, den),
       totalVolume    |-> Round(left + right, den),
       asymmetryRatio |-> asymmetryRatio(left, right)]

CalculateBreastVolumes ==
  /\ calc.op = "calculateBreastVolumes"
  /\ ~calc.returned
  /\ calc' = [calc EXCEPT !.returned = TRUE, !.result = calculateBreastVolumes(calc.args)]
  /\ UNCHANGED panel

\* The measurement code runs with the annotation panel idle.
PanelIdle == Mounted /\ tool = "DrawingTool" /\ flush = TRUE

InitVolumes ==
  /\ PanelIdle
  /\ calc \in [op : {"calculateBreastVolumes"}, returned : {FALSE}, args : VolumeArgs,
               result : {NoVolumes}]

NextVolumes == CalculateBreastVolumes

SpecVolumes == InitVolumes /\ [][NextVolumes]_vars

\* C12: the asymmetry ratio is |left - right| / max(left, right) * 100, and
\* when both volumes are zero the division is not made: the reported ratio is
\* the fallback 0, never NaN.
C12_AsymmetryRatioGuarded ==
  (calc.op = "calculateBreastVolumes" /\ calc.returned)
    => /\ calc.result.asymmetryRatio.kind = "finite"
       /\ (calc.result.leftVolume = 0 /\ calc.result.rightVolume = 0)
            => calc.result.asymmetryRatio.value = 0

-----------------------------------------------------------------------------
\* Geometric analysis: MeshAnalyzer, BreastDetector, MeshAnalyzerComponent.
\*
\* A mesh is carried by what the analysis reads of it: whether its geometry
\* has a position and a normal attribute, its vertex count, and how many of
\* the vertices findHighCurvatureRegions returns for it lie left of, on and
\* right of the centre plane x = center.x.

VertexCounts == {0, 9, 30, 1200}
SideCounts == {0, 4, 5, 20, 51}
MidCounts == {0, 15}

Meshes ==
  {m \in [positions : BOOLEAN, normals : BOOLEAN, count : VertexCounts,
          left : SideCounts, mid : MidCounts, right : SideCounts] :
     /\ ~m.positions => m.count = 0
     /\ m.left + m.mid + m.right <= m.count
     /\ ~m.normals => m.left + m.mid + m.right = 0}

\* Further meshes of a scene: one without vertices, one without normals.
ExtraMeshes ==
  {m \in Meshes : m.positions /\ m.left + m.mid + m.right = 0
                  /\ ((m.count = 0 /\ m.normals) \/ (m.count = 9 /\ ~m.normals))}

\* The meshes of a scene in traversal order.
Scenes ==
  {<<>>} \cup {<<m>> : m \in Meshes}
         \cup {<<m, e>> : m \in Meshes, e \in ExtraMeshes}
         \cup {<<e, m>> : e \in ExtraMeshes, m \in Meshes}

\* Index of the mesh with the most vertices (the first of them), 0 for null:
\* a mesh is taken only if its count exceeds the largest seen so far, 0 at
\* the start.
extractMeshData(s) ==
  LET found == {i \in 1..Len(s) : s[i].positions /\ s[i].count > 0}
  IN  IF found = {} THEN 0
      ELSE CHOOSE i \in found :
             \A j \in found : s[j].count < s[i].count \/ (s[j].count = s[i].count /\ i <= j)

NoError == "none"
MissingAttributes == "Mesh missing required position or normal attributes"
NoMeshFound == "No mesh found in scene"

\* MeshAnalyzer.analyzeMeshGeometry: throws without positions or normals,
\* else returns one MeshVertex for each of the positions.count vertices.
analyzeMeshGeometry(mesh) ==
  IF ~mesh.positions \/ ~mesh.normals
    THEN [error |-> MissingAttributes, vertices |-> 0]
    ELSE [error |-> NoError, vertices |-> mesh.count]

NoRegion == [null |-> TRUE, vertices |-> 0]
Region(n) == [null |-> FALSE, vertices |-> n]

\* clusterVertices: a side of more than 50 vertices keeps those within 2.5
\* times the median distance from its centre of mass, which are at least the
\* vertices up to the median; a smaller side is kept whole.
Clusters(n) == IF n > 50 THEN ((n \div 2) + 1)..n ELSE {n}

createRegion(n) == IF n < 5 THEN NoRegion ELSE Region(n)

\* A clustering that forms Regions only in pairs.
clusterBreastRegions_Paired(mesh, clusterLeft, clusterRight) ==
  IF mesh.left + mesh.mid + mesh.right < 20 \/ clusterLeft < 5 \/ clusterRight < 5
    THEN [leftRegion |-> NoRegion, rightRegion |-> NoRegion]
    ELSE [leftRegion |-> createRegion(clusterLeft), rightRegion |-> createRegion(clusterRight)]

\* clusterBreastRegions on the high-curvature vertices of mesh, with the
\* sizes clusterLeft and clusterRight of the two clusters.
clusterBreastRegions(mesh, clusterLeft, clusterRight) ==
  IF mesh.left + mesh.mid + mesh.right < 20
    THEN [leftRegion |-> NoRegion, rightRegion |-> NoRegion]
    ELSE [leftRegion |-> createRegion(clusterLeft), rightRegion |-> createRegion(clusterRight)]

\* findNippleCandidate: null (FALSE) for no vertex of positive curvature;
\* every vertex of a Region has curvature above a positive threshold.
findNippleCandidate(region) == region.vertices > 0

NoLandmarks ==
  [leftNipple |-> FALSE, rightNipple |-> FALSE,
   leftBreastRegion |-> NoRegion, rightBreastRegion |-> NoRegion]

detectBreastRegions(mesh, clusterLeft, clusterRight) ==
  LET r == clusterBreastRegions(mesh, clusterLeft, clusterRight)
  IN  [leftNipple  |-> IF r.leftRegion.null THEN FALSE ELSE findNippleCandidate(r.leftRegion),
       rightNipple |-> IF r.rightRegion.null THEN FALSE ELSE findNippleCandidate(r.rightRegion),
       leftBreastRegion |-> r.leftRegion,
       rightBreastRegion |-> r.rightRegion]

\* The sample loop of detectBreastRegions steps by Math.floor(length / 10):
\* with 1 to 9 vertices the step is 0 and the loop does not end.
SampleLoopEnds(n) == ~(n > 0 /\ n \div 10 = 0)

\* A call of the analysis in progress.
Analysis(op, s, params) ==
  [op |-> op, pc |-> "start", scene |-> s, augmentationParams |-> params,
   mainMesh |-> 0, vertices |-> 0, landmarks |-> NoLandmarks, augmentedMesh |-> FALSE,
   completed |-> FALSE, error |-> NoError]

\* MeshAnalyzer.analyzeMeshGeometry called on a mesh.
AnalyzeMeshGeometryCall ==
  /\ calc.op = "analyzeMeshGeometry"
  /\ calc.pc = "start"
  /\ LET r == analyzeMeshGeometry(calc.scene[1])
     IN  calc' = [calc EXCEPT !.mainMesh = 1, !.vertices = r.vertices, !.error = r.error,
                              !.pc = IF r.error = NoError THEN "done" ELSE "failed"]
  /\ UNCHANGED panel

\* analyzeScene up to its first await: extractMeshData and analyzeMeshGeometry;
\* a throw goes to the catch block's toast.
AnalyzeSceneStart ==
  /\ calc.op = "analyzeScene"
  /\ calc.pc = "start"
  /\ LET main == extractMeshData(calc.scene)
         r    == analyzeMeshGeometry(calc.scene[main])
     IN  calc' =
           IF main = 0
             THEN [calc EXCEPT !.pc = "failed", !.error = NoMeshFound]
           ELSE IF r.error # NoError
             THEN [calc EXCEPT !.pc = "failed", !.mainMesh = main, !.error = r.error]
           ELSE [calc EXCEPT !.pc = "createCurvatureMap", !.mainMesh = main,
                             !.vertices = r.vertices]
  /\ UNCHANGED panel

\* await MeshAnalyzer.createCurvatureMap(vertices, geometry)
AnalyzeSceneCurvature ==
  /\ calc.op = "analyzeScene"
  /\ calc.pc = "createCurvatureMap"
  /\ calc' = [calc EXCEPT !.pc = "detectBreastRegions"]
  /\ UNCHANGED panel

\* The rest of analyzeScene: detectBreastRegions, the augmented mesh when
\* parameters and both nipples are there, onAnalysisComplete and the toast.
AnalyzeSceneDetect ==
  /\ calc.op = "analyzeScene"
  /\ calc.pc = "detectBreastRegions"
  /\ LET mesh == calc.scene[calc.mainMesh]
     IN  IF SampleLoopEnds(calc.vertices)
           THEN \E clusterLeft \in Clusters(mesh.left), clusterRight \in Clusters(mesh.right) :
                  LET landmarks == detectBreastRegions(mesh, clusterLeft, clusterRight)
                  IN  calc' = [calc EXCEPT
                                 !.pc = "done",
                                 !.landmarks = landmarks,
                                 !.augmentedMesh = calc.augmentationParams
                                                   /\ landmarks.leftNipple
                                                   /\ landmarks.rightNipple,
                                 !.completed = TRUE]
           ELSE calc' = [calc EXCEPT !.pc = "sampleLoop"]
  /\ UNCHANGED panel

InitAnalysis ==
  /\ PanelIdle
  /\ calc \in {Analysis("analyzeMeshGeometry", <<m>>, FALSE) : m \in Meshes}
              \cup {Analysis("analyzeScene", s, p) : s \in Scenes, p \in BOOLEAN}

NextAnalysis ==
  \/ AnalyzeMeshGeometryCall
  \/ AnalyzeSceneStart
  \/ AnalyzeSceneCurvature
  \/ AnalyzeSceneDetect

SpecAnalysis == InitAnalysis /\ [][NextAnalysis]_vars

\* The mesh an analysis was given: the argument of analyzeMeshGeometry, the
\* main mesh of the scene of analyzeScene.
Analysed == calc.scene[calc.mainMesh]

\* C13: an analysis of a mesh with zero vertices or without per-vertex
\* normals ends with the precondition error; it never ends as a success.
C13_EmptyMeshRaises ==
  (calc.op \in {"analyzeMeshGeometry", "analyzeScene"} /\ calc.pc = "done")
    => (Analysed.count > 0 /\ Analysed.normals)

\* A Region can be formed from n high-curvature vertices on one side of mesh:
\* clustering has at least 20 vertices in all and at least 5 of them there.
Formable(mesh, n) == mesh.left + mesh.mid + mesh.right >= 20 /\ n >= 5

\* analyzeScene has left detectBreastRegions behind.
Detected == calc.op = "analyzeScene" /\ calc.pc \in {"done", "sampleLoop"}

-----------------------------------------------------------------------------
\* Region-mesh extraction: BreastMeshExtractor.extractBreastMeshes and the
\* effect of BreastSimulator that calls it.

\* An object of the scene given to the extraction: the object, whether its
\* geometry has positions, and whether some vertex lies in the left and in
\* the right breast region.
Extractable ==
  {o \in [obj : {ModelMesh, NippleVisualizationObj("left"), NippleMarkerObj("leftNipple"),
                 DrawingLineObj("leftContour"), DrawingVisualizationObj},
          positions : BOOLEAN, inLeft : BOOLEAN, inRight : BOOLEAN] :
     /\ o.obj.type # "Mesh" => ~o.positions
     /\ ~o.positions => (~o.inLeft /\ ~o.inRight)}

ExtractionScenes ==
  {<<>>} \cup {<<o>> : o \in Extractable} \cup {<<o, p>> : o, p \in Extractable}

\* The body mesh: the last mesh of the traversal whose name has none of
\* 'contour', 'nipple', 'drawing'; 0 for null.
BodyMesh(s) ==
  LET found == {i \in 1..Len(s) :
                  /\ s[i].obj.type = "Mesh"
                  /\ ~Includes(s[i].obj.name, s_contour)
                  /\ ~Includes(s[i].obj.name, s_nipple)
                  /\ ~Includes(s[i].obj.name, s_drawing)}
  IN  IF found = {} THEN 0 ELSE CHOOSE i \in found : \A j \in found : j <= i

\* extractSingleBreast is null (FALSE) without positions or without a vertex
\* in the region.
extractSingleBreast(bodyMesh, side) ==
  bodyMesh.positions /\ (IF side = "left" THEN bodyMesh.inLeft ELSE bodyMesh.inRight)

\* A body mesh put in when the scene has none.
extractBreastMeshes_Default(s) ==
  BodyMesh(s) = 0
    \/ (extractSingleBreast(s[BodyMesh(s)], "left") /\ extractSingleBreast(s[BodyMesh(s)], "right"))

\* extractBreastMeshes: null (FALSE) when there is no body mesh or a side
\* could not be extracted, else the two extracted meshes.
extractBreastMeshes(s) ==
  /\ BodyMesh(s) # 0
  /\ extractSingleBreast(s[BodyMesh(s)], "left")
  /\ extractSingleBreast(s[BodyMesh(s)], "right")

\* The extraction effect of BreastSimulator: only a non-null result is
\* stored, and only then are the volumes calculated.
ExtractBreastMeshes ==
  /\ calc.op = "extractBreastMeshes"
  /\ calc.pc = "start"
  /\ LET extracted == extractBreastMeshes(calc.scene)
     IN  calc' = [calc EXCEPT !.pc = "done",
                              !.bodyMesh = BodyMesh(calc.scene),
                              !.extracted = extracted,
                              !.extractedMeshes = extracted,
                              !.volumeCalculation = extracted]
  /\ UNCHANGED panel

-----------------------------------------------------------------------------
\* AnatomicalAnalyzer.analyzeModel

NotHuman == "Model does not appear to be a human torso suitable for anatomical analysis"
NoAnalyzableMesh == "No analyzable mesh found in the scene"

RECURSIVE TotalVertices(_)
TotalVertices(s) ==
  IF s = <<>> THEN 0
  ELSE (IF Head(s).positions THEN Head(s).count ELSE 0) + TotalVertices(Tail(s))

\* validateHumanModel: the aspect ratios of the bounding box are those of a
\* torso and the scene has more than 1000 vertices.
validateHumanModel(s, aspect) == aspect /\ TotalVertices(s) > 1000

\* findMainMesh: the mesh with the most vertices, 0 for null.
findMainMesh(s) == extractMeshData(s)

\* AnatomicalAnalyzer.analyzeMeshGeometry has the test of MeshAnalyzer's.
analyzeVertices(mesh) == analyzeMeshGeometry(mesh)

\* const isValidHumanModel = await this.validateHumanModel(scene)
AnalyzeModelValidate ==
  /\ calc.op = "analyzeModel"
  /\ calc.pc = "start"
  /\ calc' = IF validateHumanModel(calc.scene, calc.aspect)
               THEN [calc EXCEPT !.pc = "findMainMesh"]
               ELSE [calc EXCEPT !.pc = "failed", !.error = NotHuman]
  /\ UNCHANGED panel

\* The rest of analyzeModel: the main mesh, its vertex analysis, the landmarks
\* createManualLandmarks places from the mesh's bounding box, the breast
\* meshes and the measurements.
AnalyzeModelRun ==
  /\ calc.op = "analyzeModel"
  /\ calc.pc = "findMainMesh"
  /\ LET main == findMainMesh(calc.scene)
         r    == analyzeVertices(calc.scene[main])
     IN  calc' =
           IF main = 0
             THEN [calc EXCEPT !.pc = "failed", !.error = NoAnalyzableMesh]
           ELSE IF r.error # NoError
             THEN [calc EXCEPT !.pc = "failed", !.mainMesh = main, !.error = r.error]
           ELSE [calc EXCEPT !.pc = "done", !.mainMesh = main, !.vertices = r.vertices,
                             !.landmarks = TRUE, !.breastMeshes = TRUE,
                             !.measurements = TRUE]
  /\ UNCHANGED panel

Extraction(s) ==
  [op |-> "extractBreastMeshes", pc |-> "start", scene |-> s, bodyMesh |-> 0,
   extracted |-> FALSE, extractedMeshes |-> FALSE, volumeCalculation |-> FALSE]

ModelAnalysis(s, aspect) ==
  [op |-> "analyzeModel", pc |-> "start", scene |-> s, aspect |-> aspect, mainMesh |-> 0,
   vertices |-> 0, landmarks |-> FALSE, breastMeshes |-> FALSE, measurements |-> FALSE,
   error |-> NoError]

InitMeshSearch ==
  /\ PanelIdle
  /\ calc \in {Extraction(s) : s \in ExtractionScenes}
              \cup {ModelAnalysis(s, aspect) : s \in Scenes, aspect \in BOOLEAN}
              \cup {Analysis("analyzeScene", s, p) : s \in Scenes, p \in BOOLEAN}

NextMeshSearch ==
  \/ ExtractBreastMeshes
  \/ AnalyzeModelValidate
  \/ AnalyzeModelRun
  \/ AnalyzeSceneStart
  \/ AnalyzeSceneCurvature
  \/ AnalyzeSceneDetect

SpecMeshSearch == InitMeshSearch /\ [][NextMeshSearch]_vars

-----------------------------------------------------------------------------
\* Exact arithmetic for the deformation code: a number is a fraction n / d in
\* lowest terms with d > 0, a vector has three of them.

RECURSIVE GCD(_, _)
GCD(a, b) == IF b = 0 THEN a ELSE GCD(b, a % b)

Rat(n, d) ==
  LET g == GCD(Abs(n), Abs(d))
  IN  IF d < 0 THEN [n |-> (-n) \div g, d |-> (-d) \div g] ELSE [n |-> n \div g, d |-> d \div g]

Zero == Rat(0, 1)
One == Rat(1, 1)

RAdd(a, b) ==
  LET l == (a.d \div GCD(a.d, b.d)) * b.d
  IN  Rat(a.n * (l \div a.d) + b.n * (l \div b.d), l)
RNeg(a) == [n |-> -a.n, d |-> a.d]
RSub(a, b) == RAdd(a, RNeg(b))
\* The product, cancelling across the factors before multiplying.
RMul(a, b) ==
  LET g1 == GCD(Abs(a.n), b.d)
      g2 == GCD(Abs(b.n), a.d)
  IN  IF a.n = 0 \/ b.n = 0 THEN Zero
      ELSE Rat((a.n \div g1) * (b.n \div g2), (a.d \div g2) * (b.d \div g1))
\* a / b for b # 0
RDiv(a, b) == RMul(a, Rat(b.d, b.n))
\* Comparison over the least common denominator.
RLt(a, b) == LET g == GCD(a.d, b.d) IN a.n * (b.d \div g) < b.n * (a.d \div g)
RLe(a, b) == LET g == GCD(a.d, b.d) IN a.n * (b.d \div g) <= b.n * (a.d \div g)
RMax(a, b) == IF RLt(a, b) THEN b ELSE a
RAbs(a) == [n |-> Abs(a.n), d |-> a.d]

Vector3(x, y, z) == [x |-> x, y |-> y, z |-> z]
VAdd(v, w) == Vector3(RAdd(v.x, w.x), RAdd(v.y, w.y), RAdd(v.z, w.z))
VSub(v, w) == Vector3(RSub(v.x, w.x), RSub(v.y, w.y), RSub(v.z, w.z))
multiplyScalar(v, s) == Vector3(RMul(v.x, s), RMul(v.y, s), RMul(v.z, s))
lengthSq(v) == RAdd(RMul(v.x, v.x), RAdd(RMul(v.y, v.y), RMul(v.z, v.z)))

\* The length of a vector along one axis, the only vectors whose length the
\* model takes: the sum of the absolute components.
length(v) == RAdd(RAbs(v.x), RAdd(RAbs(v.y), RAbs(v.z)))

-----------------------------------------------------------------------------
\* MeshManipulator: simulateBreastAugmentation and deformBreastRegion.

ImplantTypes == {"round", "teardrop"}
ProjectionLevels == {"low", "moderate", "high", "ultra-high"}

\* An implant size is carried by the base radius calculateImplantDimensions
\* takes from it, Math.pow(sizeCC / 523.6, 1/3): no implant, and the size
\* whose influence radius is 40 length units.
BaseRadii == {Zero, Rat(1000, 27)}

AugmentationParameters ==
  [baseRadius : BaseRadii, implantType : ImplantTypes, projectionLevel : ProjectionLevels]

calculateImplantDimensions(baseRadius) ==
  [width      |-> RMul(baseRadius, Rat(8, 10)),
   height     |-> RMul(baseRadius, Rat(9, 10)),
   projection |-> RMul(baseRadius, Rat(6, 10))]

getProjectionMultiplier(projectionLevel) ==
  CASE projectionLevel = "low" -> Rat(7, 10)
    [] projectionLevel = "moderate" -> One
    [] projectionLevel = "high" -> Rat(13, 10)
    [] OTHER -> One

influenceRadius(implantDimensions) ==
  RMul(RMax(implantDimensions.width, implantDimensions.height), Rat(12, 10))

\* Math.pow(1 - distance / influenceRadius, 2)
influenceFactor(distance, radius) ==
  LET g == RSub(One, RDiv(distance, radius)) IN RMul(g, g)

calculateDeformationVector(vertexPosition, nipplePosition, implantDimensions, params, factor) ==
  LET toNipple  == VSub(nipplePosition, vertexPosition)
      distance  == length(toNipple)
      direction == multiplyScalar(toNipple, RDiv(One, distance))
      verticalFactor == RMax(Zero, RNeg(direction.y))
      forwardDeformation ==
        IF params.implantType = "round"
          THEN RMul(RMul(implantDimensions.projection, factor), Rat(8, 10))
          ELSE RMul(RMul(implantDimensions.projection, factor),
                    RAdd(Rat(5, 10), RMul(verticalFactor, Rat(5, 10))))
      radialExpansion ==
        IF params.implantType = "round"
          THEN RMul(RMul(implantDimensions.width, factor), Rat(3, 10))
          ELSE RMul(RMul(implantDimensions.width, factor), Rat(25, 100))
      radialVector == multiplyScalar(direction, RNeg(radialExpansion))
  IN  IF distance = Zero
        THEN Vector3(Zero, Zero, RMul(implantDimensions.projection, factor))
        ELSE VAdd(Vector3(Zero, Zero, forwardDeformation),
                  Vector3(radialVector.x, radialVector.y, Zero))

\* The deformation vector deformBreastRegion adds to the position of a vertex
\* inside the influence sphere.
Deformation(position, nipplePosition, params) ==
  LET implantDimensions == calculateImplantDimensions(params.baseRadius)
      radius   == influenceRadius(implantDimensions)
      distance == length(VSub(position, nipplePosition))
  IN  calculateDeformationVector(position, nipplePosition, implantDimensions, params,
                                 influenceFactor(distance, radius))

\* A test against a sphere half as wide again.
Displaced_Wide(position, nipplePosition, params) ==
  LET implantDimensions == calculateImplantDimensions(params.baseRadius)
  IN  RLt(length(VSub(position, nipplePosition)),
          RMul(influenceRadius(implantDimensions), Rat(15, 10)))

\* The test of deformBreastRegion: distance < influenceRadius.
Displaced(position, nipplePosition, params) ==
  LET implantDimensions == calculateImplantDimensions(params.baseRadius)
  IN  RLt(length(VSub(position, nipplePosition)), influenceRadius(implantDimensions))

\* The mesh of the model: the two nipples, and vertices on the axes through
\* a nipple at these distances from it.
LeftNipple == Vector3(Rat(-100, 1), Zero, Zero)
RightNipple == Vector3(Rat(100, 1), Zero, Zero)
Nipple(side) == IF side = "left" THEN LeftNipple ELSE RightNipple

Axes ==
  {Vector3(One, Zero, Zero), Vector3(Zero, One, Zero), Vector3(Zero, Rat(-1, 1), Zero),
   Vector3(Zero, Zero, One)}
Distances == {1, 39, 40, 41}

Around(nipplePosition) ==
  {nipplePosition}
    \cup {VAdd(nipplePosition, multiplyScalar(a, Rat(k, 1))) : a \in Axes, k \in Distances}

\* The vertices of a set in buffer order.
RECURSIVE Listed(_)
Listed(S) ==
  IF S = {} THEN <<>> ELSE LET p == CHOOSE q \in S : TRUE IN <<p>> \o Listed(S \ {p})

\* The position buffers of a mesh: vertices of the left Region, those of the
\* right Region, and one vertex of neither.
MeshPositions ==
  {Listed(l) \o r \o <<Vector3(Zero, Zero, Zero)>> :
     l \in {s \in SUBSET Around(LeftNipple) : Cardinality(s) = MaxRegion},
     r \in {<<>>, <<RightNipple>>, <<VAdd(RightNipple, Vector3(Rat(40, 1), Zero, Zero))>>}}

\* MeshVertex
MeshVertex(buffer, i) == [position |-> buffer[i], index |-> i]

\* The Regions of a buffer; a side without vertices has a null Region.
RegionOf(buffer, side) ==
  IF side = "left" THEN [i \in 1..MaxRegion |-> MeshVertex(buffer, i)]
  ELSE [i \in 1..(Len(buffer) - MaxRegion - 1) |-> MeshVertex(buffer, MaxRegion + i)]

\* setXYZ on a buffer that the source mesh shares.
setXYZ_Shared(buffers, index, p) ==
  [source |-> [buffers.source EXCEPT ![index] = p],
   positions |-> [buffers.positions EXCEPT ![index] = p]]

\* positions.setXYZ(index, x, y, z) on the cloned geometry's buffer.
setXYZ(buffers, index, p) ==
  [source |-> buffers.source, positions |-> [buffers.positions EXCEPT ![index] = p]]

\* A call of simulateBreastAugmentation on a mesh with the buffer given:
\* the geometry is cloned, and the pass starts at the left Region.
Simulation(buffer, params) ==
  [op |-> "simulateBreastAugmentation", pc |-> "left", i |-> 1, params |-> params,
   original |-> buffer, source |-> buffer, positions |-> buffer,
   normals |-> FALSE, returned |-> FALSE]

\* One turn of the forEach of deformBreastRegion.
DeformVertex ==
  /\ calc.op = "simulateBreastAugmentation"
  /\ calc.pc \in {"left", "right"}
  /\ calc.i <= Len(RegionOf(calc.original, calc.pc))
  /\ LET vertex == RegionOf(calc.original, calc.pc)[calc.i]
         nipplePosition == Nipple(calc.pc)
         newPosition == VAdd(vertex.position,
                             Deformation(vertex.position, nipplePosition, calc.params))
         buffers == IF Displaced(vertex.position, nipplePosition, calc.params)
                      THEN setXYZ([source |-> calc.source, positions |-> calc.positions],
                                  vertex.index, newPosition)
                      ELSE [source |-> calc.source, positions |-> calc.positions]
     IN  calc' = [calc EXCEPT !.i = calc.i + 1, !.source = buffers.source,
                              !.positions = buffers.positions]
  /\ UNCHANGED panel

\* The end of a Region's loop, or a null Region: on to the next Region, then
\* to the update of the geometry.
EndRegion ==
  /\ calc.op = "simulateBreastAugmentation"
  /\ calc.pc \in {"left", "right"}
  /\ calc.i > Len(RegionOf(calc.original, calc.pc))
  /\ calc' = [calc EXCEPT !.pc = IF calc.pc = "left" THEN "right" ELSE "computeVertexNormals",
                          !.i = 1]
  /\ UNCHANGED panel

\* geometry.computeVertexNormals(); geometry.computeBoundingSphere()
ComputeVertexNormals ==
  /\ calc.op = "simulateBreastAugmentation"
  /\ calc.pc = "computeVertexNormals"
  /\ calc' = [calc EXCEPT !.pc = "return", !.normals = TRUE]
  /\ UNCHANGED panel

\* augmentedMesh.geometry = geometry; return augmentedMesh
ReturnAugmentedMesh ==
  /\ calc.op = "simulateBreastAugmentation"
  /\ calc.pc = "return"
  /\ calc' = [calc EXCEPT !.pc = "done", !.returned = TRUE]
  /\ UNCHANGED panel

InitDeformation ==
  /\ PanelIdle
  /\ calc \in {Simulation(buffer, params) :
                 buffer \in MeshPositions, params \in AugmentationParameters}

NextDeformation ==
  \/ DeformVertex
  \/ EndRegion
  \/ ComputeVertexNormals
  \/ ReturnAugmentedMesh

SpecDeformation == InitDeformation /\ [][NextDeformation]_vars

\* The side of the Region a vertex of the buffer belongs to, "none" for the
\* vertex of neither Region.
RegionSide(buffer, i) ==
  IF i <= MaxRegion THEN "left" ELSE IF i < Len(buffer) THEN "right" ELSE "none"

\* The influence radius of the call in progress.
Radius == influenceRadius(calculateImplantDimensions(calc.params.baseRadius))

\* The distance of vertex i from the Landmark of its Region's pass.
FromLandmark(i) ==
  length(VSub(calc.original[i], Nipple(RegionSide(calc.original, i))))

\* C16: a vertex at a distance from its pass's Landmark greater than or equal
\* to the influence radius keeps exactly its original position, through and
\* after the pass; so does a vertex of no Region.
C16_OutsideRadiusUnmoved ==
  calc.op = "simulateBreastAugmentation"
    => \A i \in 1..Len(calc.original) :
         (RegionSide(calc.original, i) = "none" \/ RLe(Radius, FromLandmark(i)))
           => calc.positions[i] = calc.original[i]

C16_Witness ==
  /\ calc.op = "simulateBreastAugmentation" /\ calc.pc = "done"
  /\ \E i, j \in 1..MaxRegion :
       /\ FromLandmark(i) = Radius /\ calc.positions[i] = calc.original[i]
       /\ calc.positions[j] # calc.original[j]

\* The displacement of vertex i of the buffer so far.
Displacement(i) == VSub(calc.positions[i], calc.original[i])

\* The displacement of a vertex at distance 0 from the Landmark.
AtLandmark(side) == Deformation(Nipple(side), Nipple(side), calc.params)

\* C17: the displacement of a vertex at a positive distance from the Landmark
\* is no longer than the displacement of a vertex at distance 0, for either
\* implant shape.
C17_LargestAtLandmark ==
  (calc.op = "simulateBreastAugmentation" /\ calc.params.baseRadius # Zero)
    => \A i \in 1..(Len(calc.original) - 1) :
         RLe(lengthSq(Displacement(i)),
             lengthSq(AtLandmark(RegionSide(calc.original, i))))

-----------------------------------------------------------------------------
\* BreastManipulator: the simulated meshes and their transformations.

Sliders ==
  {"leftSize", "rightSize", "leftProjection", "rightProjection", "leftUpperPole",
   "rightUpperPole", "leftLowerPole", "rightLowerPole", "leftHeight", "rightHeight"}
Offsets == {"leftHeight", "rightHeight", "leftMedial", "rightMedial"}

\* The values a slider is moved to: a multiplier, or an offset.
SliderValues(name) ==
  IF name \in Offsets THEN {Rat(-1, 5), Zero, Rat(1, 5)} ELSE {Rat(1, 2), One, Rat(3, 2)}

\* The initial augmentationState, and the one resetSimulation sets.
Neutral == [name \in Sliders \cup Offsets |-> IF name \in Offsets THEN Zero ELSE One]

\* A contour's centre: at the nipple, or behind it.
Centers(side) == {Nipple(side), VAdd(Nipple(side), Vector3(Zero, Zero, Rat(-10, 1)))}

NoMeshes == [null |-> TRUE, scale |-> Vector3(One, One, One), position |-> Vector3(Zero, Zero, Zero)]

\* createBreastMeshFromContour: unit scale, at the contour's centre.
createBreastMeshFromContour(center) ==
  [null |-> FALSE, scale |-> Vector3(One, One, One), position |-> center]

\* The scale and position the effect gives the mesh of a side.
Transformed(mesh, a, side) ==
  LET size == a[side \o "Size"]
      poles == RMul(RAdd(a[side \o "UpperPole"], a[side \o "LowerPole"]), Rat(1, 2))
      base == Nipple(side)
  IN  [mesh EXCEPT
         !.scale = Vector3(size, RMul(size, poles), a[side \o "Projection"]),
         !.position = Vector3(RAdd(base.x, RMul(a[side \o "Medial"], Rat(1, 10))),
                              RAdd(base.y, RMul(a[side \o "Height"], Rat(1, 10))),
                              base.z)]

\* The measurements of a model in cm: none taken, or a breast 12 wide and 5
\* deep on each side.
Measurements ==
  {[leftBreastDiameter |-> Rat(d, 1), rightBreastDiameter |-> Rat(d, 1),
    projectionLeft |-> Rat(q, 1), projectionRight |-> Rat(q, 1)] :
     d \in {0, 12}, q \in {0, 5}}

calculateCupSize(volume) ==
  CASE RLt(volume, Rat(150, 1)) -> "A"
    [] RLt(volume, Rat(250, 1)) -> "B"
    [] RLt(volume, Rat(350, 1)) -> "C"
    [] RLt(volume, Rat(450, 1)) -> "D"
    [] RLt(volume, Rat(550, 1)) -> "DD"
    [] RLt(volume, Rat(650, 1)) -> "E"
    [] RLt(volume, Rat(750, 1)) -> "F"
    [] OTHER -> "G+"

NoSimulatedVolumes ==
  [null |-> TRUE, leftVolume |-> 0, rightVolume |-> 0, totalVolume |-> 0,
   asymmetryRatio |-> Finite(0), leftCupSize |-> "A", rightCupSize |-> "A"]

\* updateSimulatedVolumes: the cylinder PI * (d/2)^2 * p * 0.75 of a side,
\* scaled by size^2 * projection * (upperPole + lowerPole) / 2.
updateSimulatedVolumes(a, m) ==
  LET base(d, q) ==
        RMul(RMul(Rat(PiNum, PiDen), RMul(RMul(d, Rat(1, 2)), RMul(d, Rat(1, 2)))),
             RMul(q, Rat(75, 100)))
      scaled(b, side) ==
        RMul(RMul(b, RMul(a[side \o "Size"], a[side \o "Size"])),
             RMul(a[side \o "Projection"],
                  RMul(RAdd(a[side \o "UpperPole"], a[side \o "LowerPole"]), Rat(1, 2))))
      l == scaled(base(m.leftBreastDiameter, m.projectionLeft), "left")
      r == scaled(base(m.rightBreastDiameter, m.projectionRight), "right")
      t == RAdd(l, r)
      ratio == RMul(RDiv(RAbs(RSub(l, r)), RMax(l, r)), Rat(1000, 1))
  IN  [null |-> FALSE,
       leftVolume |-> Round(l.n, l.d),
       rightVolume |-> Round(r.n, r.d),
       totalVolume |-> Round(t.n, t.d),
       asymmetryRatio |-> IF RMax(l, r) = Zero THEN NaN ELSE Finite(Round(ratio.n, ratio.d)),
       leftCupSize |-> calculateCupSize(l),
       rightCupSize |-> calculateCupSize(r)]

Manipulator(leftCenter, rightCenter, m) ==
  [op |-> "BreastManipulator", augmentationState |-> Neutral, isActive |-> FALSE,
   measurements |-> m, leftCenter |-> leftCenter, rightCenter |-> rightCenter,
   left |-> NoMeshes, right |-> NoMeshes, simulatedVolumes |-> NoSimulatedVolumes,
   pending |-> FALSE, changes |-> 0]

startSimulation ==
  /\ calc.op = "BreastManipulator"
  /\ ~calc.isActive
  /\ ~calc.pending
  /\ calc' = [calc EXCEPT !.left = createBreastMeshFromContour(calc.leftCenter),
                          !.right = createBreastMeshFromContour(calc.rightCenter),
                          !.isActive = TRUE, !.pending = TRUE]
  /\ UNCHANGED panel

stopSimulation ==
  /\ calc.op = "BreastManipulator"
  /\ calc.isActive
  /\ ~calc.pending
  /\ calc' = [calc EXCEPT !.left = NoMeshes, !.right = NoMeshes, !.isActive = FALSE,
                          !.pending = TRUE]
  /\ UNCHANGED panel

\* A slider's onValueChange.
MoveSlider(name, value) ==
  /\ calc.op = "BreastManipulator"
  /\ ~calc.pending
  /\ calc.changes < MaxChanges
  /\ calc.augmentationState[name] # value
  /\ calc' = [calc EXCEPT !.augmentationState[name] = value, !.pending = TRUE,
                          !.changes = calc.changes + 1]
  /\ UNCHANGED panel

\* resetSimulation; its updateSimulatedVolumes is the one of the first render,
\* which reads the initial augmentationState.
resetSimulation ==
  /\ calc.op = "BreastManipulator"
  /\ ~calc.pending
  /\ calc' = [calc EXCEPT
                !.augmentationState = Neutral,
                !.left = IF calc.left.null THEN calc.left
                         ELSE [calc.left EXCEPT !.scale = Vector3(One, One, One),
                                                !.position = LeftNipple],
                !.right = IF calc.right.null THEN calc.right
                          ELSE [calc.right EXCEPT !.scale = Vector3(One, One, One),
                                                  !.position = RightNipple],
                !.simulatedVolumes = updateSimulatedVolumes(Neutral, calc.measurements),
                !.pending = (calc.augmentationState # Neutral)]
  /\ UNCHANGED panel

\* The effect on augmentationState: the transformations of both meshes and
\* the simulated volumes.
UpdateTransformations ==
  /\ calc.op = "BreastManipulator"
  /\ calc.pending
  /\ calc' = IF ~calc.isActive \/ calc.left.null
               THEN [calc EXCEPT !.pending = FALSE]
               ELSE [calc EXCEPT
                       !.left = Transformed(calc.left, calc.augmentationState, "left"),
                       !.right = Transformed(calc.right, calc.augmentationState, "right"),
                       !.simulatedVolumes =
                          updateSimulatedVolumes(calc.augmentationState, calc.measurements),
                       !.pending = FALSE]
  /\ UNCHANGED panel

InitManipulator ==
  /\ PanelIdle
  /\ calc \in {Manipulator(l, r, m) :
                 l \in Centers("left"), r \in Centers("right"), m \in Measurements}

NextManipulator ==
  \/ startSimulation
  \/ stopSimulation
  \/ \E name \in Sliders : \E value \in SliderValues(name) : MoveSlider(name, value)
  \/ resetSimulation
  \/ UpdateTransformations

SpecManipulator == InitManipulator /\ [][NextManipulator]_vars

\* C18: with every multiplier at 1.0 and every fullness and offset at its
\* neutral default applied, the simulated meshes are as they were created:
\* unit scale, placed where createBreastMeshFromContour put them.
C18_NeutralIsIdentity ==
  (calc.op = "BreastManipulator" /\ calc.isActive /\ ~calc.pending
     /\ calc.augmentationState = Neutral)
    => /\ calc.left = createBreastMeshFromContour(calc.leftCenter)
       /\ calc.right = createBreastMeshFromContour(calc.rightCenter)

\* The implant profiles in rising order.
Profiles == <<"low", "moderate", "high", "ultra-high">>

\* The displacement deformBreastRegion gives vertex i under a profile.
ProfileDisplacement(i, projectionLevel) ==
  LET side == RegionSide(calc.original, i)
      params == [calc.params EXCEPT !.projectionLevel = projectionLevel]
  IN  IF side # "none" /\ Displaced(calc.original[i], Nipple(side), params)
        THEN Deformation(calc.original[i], Nipple(side), params)
        ELSE Vector3(Zero, Zero, Zero)

\* Vertex i has had its turn in the pass.
Visited(i) ==
  \/ calc.pc \notin {"left", "right"}
  \/ (calc.pc = "left" /\ i < calc.i)
  \/ (calc.pc = "right" /\ (i <= MaxRegion \/ i < MaxRegion + calc.i))

\* C19: the forward (z) component of a displacement is the profile's
\* multiplier times that of the 'moderate' profile, whose multiplier is 1,
\* and strictly larger than under every lower profile; the components in the
\* plane are the same under every profile.
C19_ProfileScalesProjection ==
  calc.op = "simulateBreastAugmentation"
    => \A i \in 1..Len(calc.original) :
         (Visited(i) /\ Displacement(i) # Vector3(Zero, Zero, Zero))
           => /\ Displacement(i).z
                   = RMul(getProjectionMultiplier(calc.params.projectionLevel),
                          ProfileDisplacement(i, "moderate").z)
              /\ \A k, m \in 1..Len(Profiles) :
                   (k < m /\ Profiles[m] = calc.params.projectionLevel)
                     => RLt(ProfileDisplacement(i, Profiles[k]).z, Displacement(i).z)
              /\ \A k \in 1..Len(Profiles) :
                   /\ ProfileDisplacement(i, Profiles[k]).x = Displacement(i).x
                   /\ ProfileDisplacement(i, Profiles[k]).y = Displacement(i).y

\* The pass of simulateBreastAugmentation has displaced every vertex it
\* displaces.
PassComplete == \A i \in 1..Len(calc.original) : Visited(i)

\* C20: the position buffer of the source mesh is unchanged throughout the
\* pass, and the displaced geometry is handed to the caller only after every
\* vertex has had its turn and the vertex normals have been recomputed.
C20_NoPartialMesh ==
  calc.op = "simulateBreastAugmentation"
    => /\ calc.source = calc.original
       /\ calc.returned => (PassComplete /\ calc.normals)

C20_Witness ==
  /\ calc.op = "simulateBreastAugmentation"
  /\ calc.pc = "right"
  /\ calc.positions # calc.original
  /\ calc.source = calc.original
  /\ ~calc.returned

-----------------------------------------------------------------------------
\* MeshAnalyzer.createCurvatureMap: the per-vertex curvature pass

maxVertices == 5000
batchSize == 50

\* Math.ceil(n / d) for n >= 0 and d > 0.
Ceil(n, d) == (n + d - 1) \div d

\* The lengths of the vertex lists the pass is run on: around one batch,
\* around one yield period, and around and above the processing limit.
CurvatureSizes ==
  {0, 1, batchSize, batchSize + 1, batchSize * 10, batchSize * 10 + 1,
   maxVertices, maxVertices + 1, 2 * maxVertices + 1}

\* The step of the filter `index % step === 0` that picks verticesToProcess.
step(n) == IF n > maxVertices THEN Ceil(n, maxVertices) ELSE 1

\* verticesToProcess.length: the indices 0, step, 2 * step, ... below n.
toProcess(n) == Ceil(n, step(n))

\* The vertex.index values of verticesToProcess.slice(i, i + batchSize).
batch(n, i) ==
  LET last == IF i + batchSize < toProcess(n) THEN i + batchSize ELSE toProcess(n)
  IN  {k * step(n) : k \in i..(last - 1)}

\* The pass awaits the timer after the batch that starts at a multiple of
\* ten batches.
yieldsOnce(i) == i = 0

yields(i) == i % (batchSize * 10) = 0

\* A call of createCurvatureMap on n vertices, at the head of its loop.
CurvaturePass(n) ==
  [op |-> "createCurvatureMap", pc |-> "loop", n |-> n, i |-> 0, processed |-> 0,
   curvatureMap |-> {}, sinceYield |-> 0, awaited |-> 0]

\* One turn of the outer loop: the batch is given its curvature estimates,
\* then the pass either awaits the timer or goes on to the next batch.
ProcessBatch ==
  /\ calc.op = "createCurvatureMap"
  /\ calc.pc = "loop"
  /\ calc.i < toProcess(calc.n)
  /\ LET b == batch(calc.n, calc.i)
     IN  calc' = [calc EXCEPT
                    !.curvatureMap = @ \cup b,
                    !.processed = @ + Cardinality(b),
                    !.sinceYield = @ + Cardinality(b),
                    !.pc = IF yields(calc.i) THEN "await" ELSE "loop",
                    !.i = IF yields(calc.i) THEN @ ELSE @ + batchSize]
  /\ UNCHANGED panel

\* The timer of the await fires: the host event loop has run, and the pass
\* goes on with the next batch.
ResumePass ==
  /\ calc.op = "createCurvatureMap"
  /\ calc.pc = "await"
  /\ calc' = [calc EXCEPT !.pc = "loop", !.i = @ + batchSize, !.sinceYield = 0,
                          !.awaited = @ + 1]
  /\ UNCHANGED panel

\* The loop is over: the map is returned.
ReturnCurvatureMap ==
  /\ calc.op = "createCurvatureMap"
  /\ calc.pc = "loop"
  /\ calc.i >= toProcess(calc.n)
  /\ calc' = [calc EXCEPT !.pc = "done"]
  /\ UNCHANGED panel

InitCurvature ==
  /\ PanelIdle
  /\ calc \in {CurvaturePass(n) : n \in CurvatureSizes}

NextCurvature == ProcessBatch \/ ResumePass \/ ReturnCurvatureMap

\* The loop body is synchronous and the host fires every timer it was given.
SpecCurvature == InitCurvature /\ [][NextCurvature]_vars /\ WF_vars(NextCurvature)

C24_EstimateForEveryVertex ==
  (calc.op = "createCurvatureMap" /\ calc.pc = "done")
    => calc.curvatureMap = 0..(calc.n - 1)

-----------------------------------------------------------------------------
\* ManualMeasurementCalculator.calculateSymmetryRatio

\* Breast diameters in cm, as calculateBreastDiameter returns them: 0 for a
\* contour of fewer than three vertices, else the largest vertex distance.
Diameters == 0..MaxDiameter

RMin(a, b) == IF RLt(b, a) THEN b ELSE a

Hundred == Rat(100, 1)

\* The ratio without the ordering of the two diameters.
calculateSymmetryRatio_Unordered(leftDiameter, rightDiameter) ==
  IF leftDiameter = Zero \/ rightDiameter = Zero
  THEN Zero
  ELSE RMul(RDiv(leftDiameter, rightDiameter), Hundred)

calculateSymmetryRatio(leftDiameter, rightDiameter) ==
  IF leftDiameter = Zero \/ rightDiameter = Zero
  THEN Zero
  ELSE LET smaller == RMin(leftDiameter, rightDiameter)
           larger == RMax(leftDiameter, rightDiameter)
       IN  RMul(RDiv(smaller, larger), Hundred)

\* calculateAllMeasurements takes the ratio of the two contours' diameters.
CalculateSymmetryRatio ==
  /\ calc.op = "calculateSymmetryRatio"
  /\ ~calc.returned
  /\ calc' = [calc EXCEPT !.returned = TRUE,
                          !.result = calculateSymmetryRatio(Rat(calc.left, 1), Rat(calc.right, 1))]
  /\ UNCHANGED panel

InitSymmetry ==
  /\ PanelIdle
  /\ calc \in [op : {"calculateSymmetryRatio"}, returned : {FALSE}, left : Diameters,
               right : Diameters, result : {Zero}]

NextSymmetry == CalculateSymmetryRatio

SpecSymmetry == InitSymmetry /\ [][NextSymmetry]_vars

\* C22: the symmetry ratio is 0 when either diameter is 0 and otherwise the
\* smaller diameter as a percentage of the larger one; it is 100 for (10, 10),
\* 50 for (5, 10) and 0 for (0, 10).
C22_SymmetryRatio ==
  (calc.op = "calculateSymmetryRatio" /\ calc.returned)
    => LET l == calc.left
           r == calc.right
           lo == IF l <= r THEN l ELSE r
           hi == IF l <= r THEN r ELSE l
       IN  /\ (l = 0 \/ r = 0) => calc.result = Zero
           /\ (l # 0 /\ r # 0) => calc.result.n * hi = 100 * lo * calc.result.d
           /\ (l = 10 /\ r = 10) => calc.result = Rat(100, 1)
           /\ (l = 5 /\ r = 10) => calc.result = Rat(50, 1)
           /\ (l = 0 /\ r = 10) => calc.result = Rat(0, 1)

C22_Witness ==
  /\ calc.op = "calculateSymmetryRatio"
  /\ calc.returned
  /\ calc.left = 10
  /\ calc.right = 5
  /\ calc.result = Rat(50, 1)

-----------------------------------------------------------------------------
\* The volume of a side under the size multiplier:
\* BreastAugmentationSimulator.calculateAugmentationResults,
\* BreastManipulator's updateSimulatedVolumes, BreastSimulator's scaling effect

\* Values inside the sliders' ranges: size 0.5 to 2.0, projection 0.5 to 2.0,
\* pole fullness 0.5 to 1.5.
SizeMultipliers == {Rat(1, 2), One, Rat(11, 10), Rat(2, 1)}
ProjectionMultipliers == {Rat(1, 2), One, Rat(2, 1)}
PoleFullness == {Rat(1, 2), One, Rat(3, 2)}

\* Measurements with two equal sides, and with a left side 1 cm wide.
ScalingMeasurements ==
  Measurements \cup
    {[leftBreastDiameter |-> One, rightBreastDiameter |-> Rat(12, 1),
      projectionLeft |-> One, projectionRight |-> Rat(5, 1)]}

\* Rounded volumes of a side in cm3, as calculateBreastVolumes reports them.
BaseVolumes == {0, 1, 3, 377}

\* The augmented volume with the radius divided by the size multiplier.
calculateAugmentationResults_Shrinking(measurements, params, side) ==
  LET diameter == IF side = "left" THEN measurements.leftBreastDiameter
                  ELSE measurements.rightBreastDiameter
      projection == IF side = "left" THEN measurements.projectionLeft
                    ELSE measurements.projectionRight
      newRadius == RDiv(RMul(diameter, Rat(1, 2)), params.sizeMultiplier)
      newProjection == RMul(projection, params.projectionMultiplier)
      shapeMultiplier == RMul(RAdd(params.upperPoleFullness, params.lowerPoleFullness), Rat(1, 2))
      augmentedVolume ==
        RMul(RMul(RMul(Rat(4, 3), Rat(PiNum, PiDen)), RMul(newRadius, newRadius)),
             RMul(newProjection, shapeMultiplier))
  IN  [augmentedVolume |-> Round(augmentedVolume.n, augmentedVolume.d)]

\* calculateAugmentationResults: the ellipsoid 4/3 PI r r p of the scaled
\* radius and projection, times the mean pole fullness, rounded.
calculateAugmentationResults(measurements, params, side) ==
  LET diameter == IF side = "left" THEN measurements.leftBreastDiameter
                  ELSE measurements.rightBreastDiameter
      projection == IF side = "left" THEN measurements.projectionLeft
                    ELSE measurements.projectionRight
      originalRadius == RMul(diameter, Rat(1, 2))
      newRadius == RMul(originalRadius, params.sizeMultiplier)
      newProjection == RMul(projection, params.projectionMultiplier)
      shapeMultiplier == RMul(RAdd(params.upperPoleFullness, params.lowerPoleFullness), Rat(1, 2))
      augmentedVolume ==
        RMul(RMul(RMul(Rat(4, 3), Rat(PiNum, PiDen)), RMul(newRadius, newRadius)),
             RMul(newProjection, shapeMultiplier))
  IN  [augmentedVolume |-> Round(augmentedVolume.n, augmentedVolume.d)]

\* BreastSimulator's effect on simulationState: the reported volume of a side
\* times size^2 times projection, rounded.
scaledVolume(volume, size, projection) ==
  LET scaled == RMul(RMul(Rat(volume, 1), RMul(size, size)), projection)
  IN  Round(scaled.n, scaled.d)

\* The augmentationState of BreastManipulator with a side's sliders set.
Augmentation(side, size, projection, upperPole, lowerPole) ==
  [Neutral EXCEPT ![side \o "Size"] = size, ![side \o "Projection"] = projection,
                  ![side \o "UpperPole"] = upperPole, ![side \o "LowerPole"] = lowerPole]

\* The volume each of the three computations gives a side under a size.
SideVolume(c, size) ==
  CASE c.op = "calculateAugmentationResults" ->
         calculateAugmentationResults(
           c.measurements,
           [sizeMultiplier |-> size, projectionMultiplier |-> c.projection,
            upperPoleFullness |-> c.upperPole, lowerPoleFullness |-> c.lowerPole],
           c.side).augmentedVolume
    [] c.op = "updateSimulatedVolumes" ->
         LET v == updateSimulatedVolumes(
                    Augmentation(c.side, size, c.projection, c.upperPole, c.lowerPole),
                    c.measurements)
         IN  IF c.side = "left" THEN v.leftVolume ELSE v.rightVolume
    [] c.op = "BreastSimulator" -> scaledVolume(c.base, size, c.projection)

VolumeScaling ==
  [op : {"calculateAugmentationResults", "updateSimulatedVolumes", "BreastSimulator"},
   side : {"left", "right"}, size : SizeMultipliers, projection : ProjectionMultipliers,
   upperPole : PoleFullness, lowerPole : PoleFullness,
   measurements : ScalingMeasurements, base : BaseVolumes,
   moved : {FALSE}, volume : {0}, before : {0}]

\* The computation is used by one caller: the pole sliders belong to the
\* first two, the reported base volume to the third.
Used(c) ==
  IF c.op = "BreastSimulator"
  THEN c.upperPole = One /\ c.lowerPole = One /\ c.measurements \in Measurements
       /\ c.measurements.leftBreastDiameter = Zero /\ c.measurements.projectionLeft = Zero
  ELSE c.base = 0

CalculateAugmentationResults(size) ==
  /\ calc.op = "calculateAugmentationResults"
  /\ ~calc.moved
  /\ RLt(calc.size, size)
  /\ calc' = [calc EXCEPT !.size = size, !.moved = TRUE,
                          !.before = SideVolume(calc, calc.size),
                          !.volume = SideVolume(calc, size)]
  /\ UNCHANGED panel

\* The size slider of BreastManipulator is moved up and the effect has run.
UpdateSimulatedVolumes(size) ==
  /\ calc.op = "updateSimulatedVolumes"
  /\ ~calc.moved
  /\ RLt(calc.size, size)
  /\ calc' = [calc EXCEPT !.size = size, !.moved = TRUE,
                          !.before = SideVolume(calc, calc.size),
                          !.volume = SideVolume(calc, size)]
  /\ UNCHANGED panel

\* updateLeftSize or updateRightSize of BreastSimulator with a larger value,
\* and the effect has run.
UpdateSize(size) ==
  /\ calc.op = "BreastSimulator"
  /\ ~calc.moved
  /\ RLt(calc.size, size)
  /\ calc' = [calc EXCEPT !.size = size, !.moved = TRUE,
                          !.before = SideVolume(calc, calc.size),
                          !.volume = SideVolume(calc, size)]
  /\ UNCHANGED panel

InitScaling ==
  /\ PanelIdle
  /\ calc \in {c \in VolumeScaling : Used(c)}

NextScaling ==
  \E size \in SizeMultipliers :
    \/ CalculateAugmentationResults(size)
    \/ UpdateSimulatedVolumes(size)
    \/ UpdateSize(size)

SpecScaling == InitScaling /\ [][NextScaling]_vars

-----------------------------------------------------------------------------
\* BreastDetector.clusterBreastRegions on vertex positions

\* The x coordinates of high-curvature vertices relative to the chest centre:
\* on the central plane, close to it on either side, and far out.
Xs == {-11, -1, 0, 1, 11}

\* A list of vertices, as the number of vertices at each coordinate.
NoVertices == [x \in Xs |-> 0]

VertexLists ==
  {[x \in Xs |-> CASE x = -11 -> farLeft [] x = -1 -> left [] x = 0 -> mid
                   [] x = 1 -> right [] x = 11 -> farRight] :
     farLeft \in {0, 1}, left \in {0, 4, 19, 50}, mid \in {0, 15},
     right \in {0, 4, 19, 50}, farRight \in {0, 1}}

RECURSIVE SumOver(_, _)
SumOver(f, S) ==
  IF S = {} THEN 0 ELSE LET x == CHOOSE x \in S : TRUE IN f[x] + SumOver(f, S \ {x})

\* The length of a list.
Length(list) == SumOver(list, Xs)

\* vertices.filter(v => v.position.x < center.x) and its mirror image
leftVertices(list) == [x \in Xs |-> IF x < 0 THEN list[x] ELSE 0]
rightVertices(list) == [x \in Xs |-> IF x > 0 THEN list[x] ELSE 0]

\* The centre of mass of a non-empty list.
centerOfMass(list) ==
  Rat(SumOver([x \in Xs |-> x * list[x]], Xs), Length(list))

distanceTo(x, point) == RAbs(RSub(Rat(x, 1), point))

\* distances[Math.floor(distances.length / 2)] of the sorted distances to the
\* centre of mass.
medianDistance(list) ==
  LET c == centerOfMass(list)
      half == Length(list) \div 2
      upTo(d) == Length([x \in Xs |-> IF RLe(distanceTo(x, c), d) THEN list[x] ELSE 0])
      below(d) == Length([x \in Xs |-> IF RLt(distanceTo(x, c), d) THEN list[x] ELSE 0])
  IN  CHOOSE d \in {distanceTo(x, c) : x \in {y \in Xs : list[y] > 0}} :
        below(d) <= half /\ half < upTo(d)

clusterVertices(sideVertices) ==
  IF Length(sideVertices) = 0 THEN NoVertices
  ELSE IF Length(sideVertices) > 50
  THEN LET c == centerOfMass(sideVertices)
           maxDistance == RMul(medianDistance(sideVertices), Rat(5, 2))
       IN  [x \in Xs |-> IF RLe(distanceTo(x, c), maxDistance) THEN sideVertices[x] ELSE 0]
  ELSE sideVertices

NoBreastRegion == [null |-> TRUE, vertices |-> NoVertices]

\* createRegion of clusterBreastRegions
createBreastRegion(regionVertices) ==
  IF Length(regionVertices) < 5 THEN NoBreastRegion
  ELSE [null |-> FALSE, vertices |-> regionVertices]

clusterVertexList(list) ==
  IF Length(list) < 20
  THEN [leftRegion |-> NoBreastRegion, rightRegion |-> NoBreastRegion]
  ELSE [leftRegion |-> createBreastRegion(clusterVertices(leftVertices(list))),
        rightRegion |-> createBreastRegion(clusterVertices(rightVertices(list)))]

ClusterBreastRegions ==
  /\ calc.op = "clusterBreastRegions"
  /\ ~calc.returned
  /\ calc' = [calc EXCEPT !.returned = TRUE, !.result = clusterVertexList(calc.vertices)]
  /\ UNCHANGED panel

InitClustering ==
  /\ PanelIdle
  /\ calc \in [op : {"clusterBreastRegions"}, returned : {FALSE}, vertices : VertexLists,
               result : {[leftRegion |-> NoBreastRegion, rightRegion |-> NoBreastRegion]}]

NextClustering == ClusterBreastRegions

SpecClustering == InitClustering /\ [][NextClustering]_vars

\* The Region of a side holds only vertices of that side of the list, none of
\* them farther from the side's centroid than 2.5 times the side's median
\* distance to it, and at least five of them.
WithinSide(region, sideVertices) ==
  \/ region.null
  \/ /\ \A x \in Xs : region.vertices[x] <= sideVertices[x]
     /\ Length(region.vertices) >= 5
     /\ \A x \in Xs :
          region.vertices[x] > 0
            => RLe(distanceTo(x, centerOfMass(sideVertices)),
                   RMul(medianDistance(sideVertices), Rat(5, 2)))

\* C25: every Region that clustering returns holds only high-curvature
\* vertices of its own side, none beyond 2.5 times the side's median distance
\* to the side's centroid, and at least the minimum count of vertices.
C25_RegionWithoutOutliers ==
  (calc.op = "clusterBreastRegions" /\ calc.returned)
    => /\ WithinSide(calc.result.leftRegion, leftVertices(calc.vertices))
       /\ WithinSide(calc.result.rightRegion, rightVertices(calc.vertices))

-----------------------------------------------------------------------------
\* BreastDetector.findHighCurvatureRegions

\* The mean curvatures of the vertices; 0 also stands for a vertex without an
\* entry in the curvature map.
Curvatures == {0, 1, 2, 4, 10}

\* A list of vertices, as the number of vertices of each curvature.
CurvatureLists == [Curvatures -> {0, 5, 20, 100}]

NoCandidates == [c \in Curvatures |-> 0]

Size(list) == SumOver(list, Curvatures)

\* The vertices of the list whose curvature is above the threshold.
candidatesAbove(list, threshold) ==
  [c \in Curvatures |-> IF 10 * c > threshold THEN list[c] ELSE 0]

\* The positive curvatures of the list.
curvatures(list) == [c \in Curvatures |-> IF c > 0 THEN list[c] ELSE 0]

\* curvatures[Math.floor(curvatures.length * tenths / 10)] of the curvatures
\* sorted from the largest down, in tenths.
strategy(list, tenths) ==
  LET index == (Size(curvatures(list)) * tenths) \div 10
      c == CHOOSE c \in Curvatures :
             /\ list[c] > 0 /\ c > 0
             /\ Size(candidatesAbove(curvatures(list), 10 * c)) <= index
             /\ index < Size(candidatesAbove(curvatures(list), 10 * c)) + list[c]
  IN  10 * c

\* candidates.length >= 20 && candidates.length <= vertices.length * 0.4
reasonable(list, candidates) ==
  Size(candidates) >= 20 /\ 10 * Size(candidates) <= 4 * Size(list)

\* Math.max(...curvatures) * 0.3, in tenths.
fallbackThreshold(list) ==
  3 * (CHOOSE c \in Curvatures : list[c] > 0 /\ \A d \in Curvatures : list[d] > 0 => d <= c)

\* The selection of part_014: always the top 20%.
findHighCurvatureRegions_TopTwenty(list) ==
  IF Size(list) = 0 \/ Size(curvatures(list)) = 0 THEN NoCandidates
  ELSE candidatesAbove(list, strategy(list, 2))

findHighCurvatureRegions(list) ==
  IF Size(list) = 0 THEN NoCandidates
  ELSE IF Size(curvatures(list)) = 0 THEN NoCandidates
  ELSE LET try(tenths) == candidatesAbove(list, strategy(list, tenths))
       IN  IF reasonable(list, try(1)) THEN try(1)
           ELSE IF reasonable(list, try(2)) THEN try(2)
           ELSE IF reasonable(list, try(3)) THEN try(3)
           ELSE candidatesAbove(list, fallbackThreshold(list))

FindHighCurvatureRegions ==
  /\ calc.op = "findHighCurvatureRegions"
  /\ ~calc.returned
  /\ calc' = [calc EXCEPT !.returned = TRUE, !.result = findHighCurvatureRegions(calc.list)]
  /\ UNCHANGED panel

InitSelection ==
  /\ PanelIdle
  /\ calc \in [op : {"findHighCurvatureRegions"}, returned : {FALSE}, list : CurvatureLists,
               result : {NoCandidates}]

NextSelection == FindHighCurvatureRegions

SpecSelection == InitSelection /\ [][NextSelection]_vars

\* The percentiles, of the three tried, whose candidate count is in the band.
InBand(list) ==
  {t \in 1..3 : reasonable(list, candidatesAbove(list, strategy(list, t)))}

\* C26: the selection returns the candidates of the first of the top-10%,
\* top-20% and top-30% thresholds whose count is at least 20 and at most 40%
\* of the vertices, and the vertices above 0.3 of the largest curvature only
\* when none of the three is.
C26_FirstThresholdInBand ==
  (calc.op = "findHighCurvatureRegions" /\ calc.returned /\ Size(curvatures(calc.list)) > 0)
    => IF InBand(calc.list) = {}
       THEN calc.result = candidatesAbove(calc.list, fallbackThreshold(calc.list))
       ELSE LET first == CHOOSE t \in InBand(calc.list) : \A u \in InBand(calc.list) : t <= u
            IN  calc.result = candidatesAbove(calc.list, strategy(calc.list, first))

C26_Witness ==
  /\ calc.op = "findHighCurvatureRegions"
  /\ calc.returned
  /\ Size(curvatures(calc.list)) > 0
  /\ InBand(calc.list) = {2, 3}
  /\ calc.result # candidatesAbove(calc.list, fallbackThreshold(calc.list))
  /\ calc.result # candidatesAbove(calc.list, strategy(calc.list, 3))

-----------------------------------------------------------------------------
\* BreastDetector.findNippleCandidate on the vertices of a Region

\* The x coordinates of the five vertices of a Region: evenly spread, one
\* vertex far from four, and all in one place.
RegionShapes == {<<0, 1, 2, 3, 4>>, <<0, 0, 0, 0, 10>>, <<2, 2, 2, 2, 2>>}

\* Mean curvatures of the vertices of a Region.
RegionCurvatures == {0, 1, 3}

\* The vertices of a Region, each with its position and its mean curvature.
RegionVertices ==
  {[i \in 1..5 |-> [position |-> shape[i], meanCurvature |-> curvature[i]]] :
     shape \in RegionShapes, curvature \in [1..5 -> RegionCurvatures]}

RECURSIVE SumPositions(_, _)
SumPositions(region, n) ==
  IF n = 0 THEN 0 ELSE region[n].position + SumPositions(region, n - 1)

regionCenter(region) == Rat(SumPositions(region, Len(region)), Len(region))

\* 1 - distanceToCenter / maxDistance, or 1 when every vertex is at the centre.
centrality(region, i) ==
  LET c == regionCenter(region)
      maxDistance ==
        CHOOSE d \in {distanceTo(region[j].position, c) : j \in 1..Len(region)} :
          \A j \in 1..Len(region) : RLe(distanceTo(region[j].position, c), d)
  IN  IF RLt(Zero, maxDistance)
      THEN RSub(One, RDiv(distanceTo(region[i].position, c), maxDistance))
      ELSE One

\* curvature * centrality
score(region, i) == RMul(Rat(region[i].meanCurvature, 1), centrality(region, i))

NoPosition == [null |-> TRUE, position |-> 0]

\* The choice of part_014: the first vertex of the highest curvature.
nippleCandidate_HighestCurvature(region) ==
  LET candidates == {i \in 1..Len(region) : region[i].meanCurvature > 0}
  IN  IF candidates = {} THEN NoPosition
      ELSE LET first == CHOOSE i \in candidates :
                          \A j \in candidates :
                            \/ region[j].meanCurvature < region[i].meanCurvature
                            \/ (region[j].meanCurvature = region[i].meanCurvature /\ i <= j)
           IN  [null |-> FALSE, position |-> region[first].position]

\* findNippleCandidate: the vertices of positive curvature, sorted by their
\* score from the largest down (the sort keeps equal scores in list order);
\* the position of the first.
nippleCandidate(region) ==
  LET candidates == {i \in 1..Len(region) : region[i].meanCurvature > 0}
  IN  IF Len(region) = 0 \/ candidates = {} THEN NoPosition
      ELSE LET first == CHOOSE i \in candidates :
                          \A j \in candidates :
                            \/ RLt(score(region, j), score(region, i))
                            \/ (score(region, j) = score(region, i) /\ i <= j)
           IN  [null |-> FALSE, position |-> region[first].position]

FindNippleCandidate ==
  /\ calc.op = "findNippleCandidate"
  /\ ~calc.returned
  /\ calc' = [calc EXCEPT !.returned = TRUE, !.nipple = nippleCandidate(calc.region)]
  /\ UNCHANGED panel

InitCandidate ==
  /\ PanelIdle
  /\ calc \in [op : {"findNippleCandidate"}, returned : {FALSE}, region : RegionVertices,
               nipple : {NoPosition}]

NextCandidate == FindNippleCandidate

SpecCandidate == InitCandidate /\ [][NextCandidate]_vars

-----------------------------------------------------------------------------
\* The order of the annotations of DrawingInterface

Stored(name) == annotations[name] # NoAnnotation

\* C28: the annotations are stored in the order left contour, right contour,
\* left nipple, right nipple: a stored right contour comes with a left
\* contour, a stored left nipple with a right contour, a stored right nipple
\* with a left nipple.
C28_AnnotationsInOrder ==
  /\ Stored("rightContour") => Stored("leftContour")
  /\ Stored("leftNipple") => Stored("rightContour")
  /\ Stored("rightNipple") => Stored("leftNipple")

-----------------------------------------------------------------------------
\* Index: handleGenerate3D and pollGenerationStatus

maxAttempts == 60

\* What the generate-3d function answers: an error, a task id, or neither.
StartResponses == {"error", "task_id", "no task_id"}

\* What the check-status function answers: an error, or a status with or
\* without a progress (0: none), a model url and a generation error.
StatusResponses ==
  [error : {TRUE}, status : {"running"}, progress : {0}, model_url : {FALSE},
   generationError : {FALSE}]
  \cup
  [error : {FALSE}, status : {"queued", "running", "success", "failed"}, progress : {0, 50},
   model_url : BOOLEAN, generationError : BOOLEAN]

\* The page before Generate is pressed. `pending` is what the page waits for:
\* the answer to a request, the timer of the next poll, or nothing.
Generation ==
  [op |-> "handleGenerate3D", isGenerating |-> FALSE, progress |-> 0, hasError |-> FALSE,
   hasModelUrl |-> FALSE, hasTaskId |-> FALSE, attempts |-> 0, pending |-> "none",
   started |-> FALSE]

\* The state the catch blocks set.
Failed(c) ==
  [c EXCEPT !.isGenerating = FALSE, !.progress = 0, !.hasError = TRUE, !.hasModelUrl = FALSE,
            !.pending = "none"]

\* handleGenerate3D up to its await, with an image token and an API key.
handleGenerate3D ==
  /\ calc.op = "handleGenerate3D"
  /\ ~calc.started
  /\ calc' = [calc EXCEPT !.isGenerating = TRUE, !.progress = 0, !.hasError = FALSE,
                          !.hasModelUrl = FALSE, !.hasTaskId = FALSE, !.started = TRUE,
                          !.pending = "generate-3d"]
  /\ UNCHANGED panel

\* The rest of handleGenerate3D, and pollGenerationStatus with its first timer.
StartResponse(r) ==
  /\ calc.op = "handleGenerate3D"
  /\ calc.pending = "generate-3d"
  /\ calc' = CASE r = "error" -> [Failed(calc) EXCEPT !.hasTaskId = FALSE]
               [] r = "task_id" -> [calc EXCEPT !.hasTaskId = TRUE, !.progress = 10,
                                                !.pending = "timer"]
               [] OTHER -> [calc EXCEPT !.pending = "none"]
  /\ UNCHANGED panel

\* The timer fires: poll up to its await.
poll ==
  /\ calc.op = "handleGenerate3D"
  /\ calc.pending = "timer"
  /\ calc' = [calc EXCEPT !.attempts = @ + 1, !.pending = "check-status"]
  /\ UNCHANGED panel

\* The rest of poll.
StatusResponse(r) ==
  /\ calc.op = "handleGenerate3D"
  /\ calc.pending = "check-status"
  /\ LET progressed ==
           [calc EXCEPT !.progress = IF r.progress # 0 THEN r.progress ELSE @ + 5]
     IN  calc' =
           IF r.error THEN Failed(calc)
           ELSE IF r.status = "success" /\ r.model_url
           THEN [calc EXCEPT !.isGenerating = FALSE, !.progress = 100, !.hasModelUrl = TRUE,
                             !.hasError = FALSE, !.pending = "none"]
           ELSE IF r.status = "failed" \/ r.generationError THEN Failed(progressed)
           ELSE IF r.status = "running" /\ calc.attempts < maxAttempts
           THEN [progressed EXCEPT !.pending = "timer"]
           ELSE IF calc.attempts >= maxAttempts THEN Failed(progressed)
           ELSE [progressed EXCEPT !.pending = "none"]
  /\ UNCHANGED panel

InitGeneration ==
  /\ PanelIdle
  /\ calc = Generation

NextGeneration ==
  \/ handleGenerate3D
  \/ \E r \in StartResponses : StartResponse(r)
  \/ poll
  \/ \E r \in StatusResponses : StatusResponse(r)

\* Every request is answered and every timer fires.
SpecGeneration == InitGeneration /\ [][NextGeneration]_vars /\ WF_vars(NextGeneration)

\* C29: once generation has started it ends, with a model url or with an
\* error, after at most 60 status checks; while isGenerating is reported the
\* page is waiting for an answer or for the timer of its next poll.
C29_GenerationEnds ==
  /\ [](calc.op = "handleGenerate3D" =>
          /\ calc.attempts <= maxAttempts
          /\ calc.isGenerating => calc.pending # "none"
          /\ (calc.started /\ ~calc.isGenerating) => (calc.hasModelUrl \/ calc.hasError))
  /\ (calc.op = "handleGenerate3D" /\ calc.isGenerating)
       ~> (calc.op = "handleGenerate3D" /\ ~calc.isGenerating)

-----------------------------------------------------------------------------
\* BreastPhysicsEngine: startSimulation, stopSimulation, dispose and the
\* animation frames

\* The engine after construction. `scheduled` is the number of simulate
\* callbacks handed to requestAnimationFrame and not yet run; `steps` and
\* `updates` count the world steps and onUpdate calls of the latest animation
\* frame, `stopped` tells that stopSimulation or dispose was the last call.
Engine ==
  [op |-> "BreastPhysicsEngine", running |-> FALSE, scheduled |-> 0, steps |-> 0,
   updates |-> 0, starts |-> 0, frames |-> 0, stopped |-> FALSE, inFrame |-> FALSE,
   bodies |-> TRUE]

\* startSimulation: sets running and calls simulate, which steps the world,
\* calls onUpdate and asks for the next animation frame.
StartSimulation ==
  /\ calc.op = "BreastPhysicsEngine"
  /\ calc.starts < MaxStarts
  /\ calc' = [calc EXCEPT !.running = TRUE, !.scheduled = @ + 1, !.starts = @ + 1,
                          !.stopped = FALSE, !.inFrame = FALSE]
  /\ UNCHANGED panel

StopSimulation ==
  /\ calc.op = "BreastPhysicsEngine"
  /\ calc' = [calc EXCEPT !.running = FALSE, !.stopped = TRUE, !.inFrame = FALSE]
  /\ UNCHANGED panel

\* dispose: clears running and removes the bodies from the world.
Dispose ==
  /\ calc.op = "BreastPhysicsEngine"
  /\ calc' = [calc EXCEPT !.running = FALSE, !.stopped = TRUE, !.inFrame = FALSE,
                          !.bodies = FALSE]
  /\ UNCHANGED panel

\* An animation frame: every scheduled simulate callback runs. While running
\* each one steps the world, calls onUpdate and schedules itself again;
\* otherwise it returns.
AnimationFrame ==
  /\ calc.op = "BreastPhysicsEngine"
  /\ calc.frames < MaxFrames
  /\ calc.scheduled > 0
  /\ calc' = [calc EXCEPT !.frames = @ + 1, !.inFrame = TRUE,
                          !.steps = IF calc.running THEN calc.scheduled ELSE 0,
                          !.updates = IF calc.running THEN calc.scheduled ELSE 0,
                          !.scheduled = IF calc.running THEN @ ELSE 0]
  /\ UNCHANGED panel

InitEngine ==
  /\ PanelIdle
  /\ calc = Engine

NextEngine == StartSimulation \/ StopSimulation \/ Dispose \/ AnimationFrame

SpecEngine == InitEngine /\ [][NextEngine]_vars

\* C30: an animation frame has at most one world step and one onUpdate call,
\* and none when stopSimulation or dispose was called with no start after it.
C30_OneStepPerFrame ==
  (calc.op = "BreastPhysicsEngine" /\ calc.inFrame)
    => /\ calc.steps <= 1
       /\ calc.updates <= 1
       /\ calc.stopped => (calc.steps = 0 /\ calc.updates = 0)

====
